---- MODULE Spec2Model ----
(***************************************************************************)
(* serial-to-mqtt: the pipeline orchestration layer (SensorPipeline,       *)
(* LoopedPipeline, AsyncPipeline, Pipelines), the message framing of       *)
(* FramedConnection, the text delimiter, and the SensorPipeline, Sensor    *)
(* and Pipelines classes called directly, as state machines; the Modbus    *)
(* RTU decoder with its CRC-16, Either, AccumulatedBytes, LoopedPipeline,  *)
(* DelayedConnection, one AsyncPipeline with several worker threads, and   *)
(* SerialConnection each on their own.                                     *)
(***************************************************************************)
EXTENDS Integers, Sequences, FiniteSets, TLC

(***************************************************************************)
(* Bounds                                                                  *)
(***************************************************************************)
\* number of AsyncPipeline(LoopedPipeline(SensorPipeline)) members of the collection
NumMembers == 2
\* the iteration counter of a LoopedPipeline.start() call counts up to
\* MaxIter and stays there (the loop itself is unbounded)
MaxIter == 3
\* Pipelines.start() calls of the orchestrator
MaxStarts == 1

\* pieces the incoming byte stream of a FramedConnection is made of
MaxPieces == 3

\* items of a Pipelines collection of recording pipelines: none up to MaxItems
MaxItems == 4

\* stop() calls made on a SensorPipeline used on its own
MaxStops == 2

Members == 1..NumMembers

(***************************************************************************)
(* Either (result/either.py) and the readings a sensor can return          *)
(***************************************************************************)
\* the side an Either does not hold; extracting it raises RuntimeError
NoContent == [class |-> "none", status |-> FALSE]
NoProblem == "none"
Right(content) == [successful |-> TRUE, content |-> content, problem |-> NoProblem]
Left(problem) == [successful |-> FALSE, content |-> NoContent, problem |-> problem]

\* the generic Reading of domain/reading.py: json() and measurement() only
GenericReading == [class |-> "Reading", status |-> FALSE]
\* a domain-specific reading that defines publishable() (tests: FakeReading)
DomainReading(status) == [class |-> "DomainReading", status |-> status]
ReadingFactoryCreate == GenericReading

Readings == {ReadingFactoryCreate} \cup {DomainReading(s) : s \in BOOLEAN}
Errors == {"Connection error"}
SensorResults == {Right(r) : r \in Readings} \cup {Left(e) : e \in Errors}
\* no sensor.read() made yet in this call
NoResult == Left(NoProblem)

\* attribute lookup reading.publishable: the method exists on the class or not
HasPublishable(reading) == reading.class = "DomainReading"
Publishable(reading) == reading.status

\* config.port() of each member's SensorConfig
ConfigPort(m) == m + 2
\* "COM{0}: {1}".format(port, error)
ConsoleMessage(m, error) == <<"COM", ConfigPort(m), ": ", error>>

(***************************************************************************)
(* State                                                                   *)
(***************************************************************************)
VARIABLES
  opc,          \* orchestrator position: "idle", "start", "stop", "join"
  oi,           \* index of the member the orchestrator's for-loop is at
  phase,        \* "new", "started", "stopped": the orchestrator's last completed call
  starts,       \* Pipelines.start() calls made
  running,      \* LoopedPipeline._running, per member
  thread,       \* AsyncPipeline._thread, per member: "None" or "Thread"
  worker,       \* position of the member's worker thread
  iterations,   \* inner start() calls of the current LoopedPipeline.start()
  result,       \* result of sensor.read() in the current SensorPipeline.start()
  reads,        \* sensor.read() calls in the current SensorPipeline.start()
  published,    \* readings passed to publisher.publish in the current call
  said,         \* messages passed to console.say in the current call
  stopDuring,   \* iteration during which LoopedPipeline.stop() ran (0: none)
  stopReturned, \* AsyncPipeline.stop() has returned since the last start()
  asyncStarts,  \* AsyncPipeline.start() calls that returned
  innerStarts   \* LoopedPipeline.start() entries

pipeVars == <<opc, oi, phase, starts, running, thread, worker, iterations,
              result, reads, published, said, stopDuring, stopReturned,
              asyncStarts, innerStarts>>

VARIABLES
  stream,       \* the bytes the inner connection will hand out, in order
  pos,          \* how many of them it has handed out so far
  accumulated,  \* FramedConnection._accumulated.content()
  fpc,          \* "idle", or "loop" inside FramedConnection.receive()
  returned,     \* the last Either returned by FramedConnection.receive()
  delivered,    \* the messages returned in a Success so far, in order
  looped        \* the current receive() has gone round its loop at least once

frameVars == <<stream, pos, accumulated, fpc, returned, delivered, looped>>

VARIABLES
  data,         \* the argument of the last KsumDelimiter.extract(data) call
  extracted,    \* the Extraction that call returned
  dpc           \* "idle", "extracted", "again": what the delimiter's user did

delimVars == <<data, extracted, dpc>>

VARIABLES
  size,         \* len(self._items) of a Pipelines over recording pipelines
  cpc,          \* "idle", or the call of that collection under way: "start", "stop"
  ci,           \* the item its for-loop is at
  calls,        \* the calls made on items by the current (or last) call
  lastCall,     \* the current (or last) call: "none", "start", "stop"
  started,      \* RecordingPipeline._started, per item
  stopped       \* RecordingPipeline._stopped, per item

collVars == <<size, cpc, ci, calls, lastCall, started, stopped>>

VARIABLES
  spc,           \* where the caller of a SensorPipeline used on its own is
  bytesResult,   \* bytes_result of Sensor.read(): what connection.receive() returned
  waits,         \* delay.wait() calls of the current start()
  parseCalls,    \* protocol.parse() calls of the current start()
  parseArg,      \* the bytes passed to protocol.parse()
  parseResult,   \* what protocol.parse() returned
  readResult,    \* what Sensor.read() returned
  sent,          \* the readings passed to publisher.publish() in the current start()
  publishResult, \* what publisher.publish() returned
  logged,        \* the messages passed to console.say() in the current start()
  stops,         \* stop() calls made on this pipeline
  stopsBefore    \* stop() calls made before the current start() was entered

callRecord == <<bytesResult, waits, parseCalls, parseArg, parseResult,
                readResult, sent, publishResult, logged>>
sensorVars == <<spc, callRecord, stops, stopsBefore>>

VARIABLES
  frame,        \* the bytes handed to ModbusRtuProtocol.parse(bytes)
  creates,      \* whether the injected measurement factory returns or raises
  mpc,          \* "new", "parsed", "altered": what was done with the frame
  parsed,       \* what parse(frame) did
  altered,      \* the frame with one bit of a CRC-covered byte flipped
  reparsed      \* what parse(altered) did
modbusVars == <<frame, creates, mpc, parsed, altered, reparsed>>

VARIABLES
  either,       \* an Either as constructed: Right(content) or Left(problem)
  asked         \* the methods called on it so far, each with what it did
eitherVars == <<either, asked>>

VARIABLES
  buffer,       \* content() of an AccumulatedBytes object, the receiver
  derived,      \* content() of the object its last append or trim returned
  accOp,        \* that call: "none", "append", "trim", or "assign"
  accArg        \* the content of the chunk or the remainder handed to it
accVars == <<buffer, derived, accOp, accArg>>

VARIABLES
  loopRunning,  \* self._running of a LoopedPipeline over a recording pipeline
  loopPc,       \* where the thread in its start() is: "idle", "test", "inner"
  innerLog,     \* the calls made on the inner pipeline, in order
  loopStarts,   \* calls of its start() so far
  loopStops     \* calls of its stop() so far
loopVars == <<loopRunning, loopPc, innerLog, loopStarts, loopStops>>

VARIABLES
  delayedPc,      \* where a DelayedConnection.receive() is: "idle", "wait", "return"
  innerResults,   \* what the inner connection's receive() returned, call by call
  delayedLog,     \* the calls made on the inner connection and the delay, in order
  delayedReturns  \* what DelayedConnection.receive() returned, call by call
delayedVars == <<delayedPc, innerResults, delayedLog, delayedReturns>>

VARIABLES
  callerPc,    \* the caller of one AsyncPipeline: "idle", or "join" inside stop()
  lastThread,  \* self._thread: 0 for None, or the number of the Thread created last
  flag,        \* self._running of the LoopedPipeline the AsyncPipeline wraps
  threads,     \* where each Thread is: "none", "ready", "test", "inner", "done", "raised"
  lastReturned, \* the call that returned last: "none", "start", "stop"
  excepted     \* the Threads in which an inner start() has raised
asyncVars == <<callerPc, lastThread, flag, threads, lastReturned, excepted>>

VARIABLES
  serial,      \* self._serial of a SerialConnection: "None" or "Serial"
  serialLog    \* the calls made on it, each with _serial before and after and what it returned
serialVars == <<serial, serialLog>>

vars == <<pipeVars, frameVars, delimVars, collVars, sensorVars, modbusVars,
          eitherVars, accVars, loopVars, delayedVars, asyncVars, serialVars>>

\* what the steps of one part of the program leave alone
otherThanPipe == <<frameVars, delimVars, collVars, sensorVars, modbusVars,
                   eitherVars, accVars, loopVars, delayedVars, asyncVars,
                   serialVars>>
otherThanFrame == <<pipeVars, delimVars, collVars, sensorVars, modbusVars,
                    eitherVars, accVars, loopVars, delayedVars, asyncVars,
                    serialVars>>
otherThanDelim == <<pipeVars, frameVars, collVars, sensorVars, modbusVars,
                    eitherVars, accVars, loopVars, delayedVars, asyncVars,
                    serialVars>>
otherThanColl == <<pipeVars, frameVars, delimVars, sensorVars, modbusVars,
                   eitherVars, accVars, loopVars, delayedVars, asyncVars,
                   serialVars>>
otherThanSensor == <<pipeVars, frameVars, delimVars, collVars, modbusVars,
                     eitherVars, accVars, loopVars, delayedVars, asyncVars,
                     serialVars>>
otherThanModbus == <<pipeVars, frameVars, delimVars, collVars, sensorVars,
                     eitherVars, accVars, loopVars, delayedVars, asyncVars,
                     serialVars>>
otherThanEither == <<pipeVars, frameVars, delimVars, collVars, sensorVars,
                     modbusVars, accVars, loopVars, delayedVars, asyncVars,
                     serialVars>>
otherThanAcc == <<pipeVars, frameVars, delimVars, collVars, sensorVars,
                  modbusVars, eitherVars, loopVars, delayedVars, asyncVars,
                  serialVars>>
otherThanLoop == <<pipeVars, frameVars, delimVars, collVars, sensorVars,
                   modbusVars, eitherVars, accVars, delayedVars, asyncVars,
                   serialVars>>
otherThanDelayed == <<pipeVars, frameVars, delimVars, collVars, sensorVars,
                      modbusVars, eitherVars, accVars, loopVars, asyncVars,
                      serialVars>>
otherThanAsync == <<pipeVars, frameVars, delimVars, collVars, sensorVars,
                    modbusVars, eitherVars, accVars, loopVars, delayedVars,
                    serialVars>>
otherThanSerial == <<pipeVars, frameVars, delimVars, collVars, sensorVars,
                     modbusVars, eitherVars, accVars, loopVars, delayedVars,
                     asyncVars>>

Alive(m) == worker[m] \in {"ready", "test", "read", "dispatch"}
InIteration(m) == worker[m] \in {"read", "dispatch"}

InitPipe ==
  /\ opc = "idle"
  /\ oi = 1
  /\ phase = "new"
  /\ starts = 0
  /\ running = [m \in Members |-> FALSE]
  /\ thread = [m \in Members |-> "None"]
  /\ worker = [m \in Members |-> "none"]
  /\ iterations = [m \in Members |-> 0]
  /\ result = [m \in Members |-> NoResult]
  /\ reads = [m \in Members |-> 0]
  /\ published = [m \in Members |-> <<>>]
  /\ said = [m \in Members |-> <<>>]
  /\ stopDuring = [m \in Members |-> 0]
  /\ stopReturned = [m \in Members |-> FALSE]
  /\ asyncStarts = [m \in Members |-> 0]
  /\ innerStarts = [m \in Members |-> 0]

\* a FramedConnection fresh from its constructor, nothing sent to it
NoBytes == <<>>
NoReturn == [successful |-> FALSE, content |-> NoBytes, problem |-> NoProblem]
InitFramedConnection ==
  /\ pos = 0
  /\ accumulated = NoBytes
  /\ fpc = "idle"
  /\ returned = NoReturn
  /\ delivered = <<>>
  /\ looped = FALSE

\* a delimiter nothing has been extracted with yet
NoExtraction == [messages |-> <<>>, remainder |-> NoBytes]
InitDelimiter ==
  /\ data = NoBytes
  /\ extracted = NoExtraction
  /\ dpc = "idle"

\* the Either of publisher.publish(): MqttClient.send's message or error
NoPublish == [successful |-> FALSE, message |-> "none"]
PublishResults ==
  { [successful |-> TRUE, message |-> "Message sent to topic"],
    [successful |-> FALSE, message |-> "MQTT client not connected"] }

\* a SensorPipeline over a Sensor, nothing called on it yet
InitCallRecord ==
  /\ bytesResult = NoReturn
  /\ waits = 0
  /\ parseCalls = 0
  /\ parseArg = NoBytes
  /\ parseResult = NoResult
  /\ readResult = NoResult
  /\ sent = <<>>
  /\ publishResult = NoPublish
  /\ logged = <<>>

InitSensorPipeline ==
  /\ spc = "idle"
  /\ InitCallRecord
  /\ stops = 0
  /\ stopsBefore = 0

\* a ModbusRtuProtocol nothing has been parsed with yet
NoParse == [successful |-> FALSE, content |-> NoContent, problem |-> <<>>]
InitModbusRtuProtocol ==
  /\ mpc = "new"
  /\ parsed = NoParse
  /\ altered = NoBytes
  /\ reparsed = NoParse

\* no Either under observation
InitEither ==
  /\ either = NoResult
  /\ asked = <<>>

\* an AccumulatedBytes("") nothing has been called on
InitAccumulatedBytes ==
  /\ buffer = NoBytes
  /\ derived = NoBytes
  /\ accOp = "none"
  /\ accArg = NoBytes

\* a LoopedPipeline fresh from its constructor
InitLoopedPipeline ==
  /\ loopRunning = FALSE
  /\ loopPc = "idle"
  /\ innerLog = <<>>
  /\ loopStarts = 0
  /\ loopStops = 0

\* a DelayedConnection nothing has been received from
InitDelayedConnection ==
  /\ delayedPc = "idle"
  /\ innerResults = <<>>
  /\ delayedLog = <<>>
  /\ delayedReturns = <<>>

\* Thread objects one AsyncPipeline creates, one per start() call
MaxThreads == 2
Threads == 1..MaxThreads

\* an AsyncPipeline over a LoopedPipeline, nothing called on it yet
InitAsyncPipeline ==
  /\ callerPc = "idle"
  /\ lastThread = 0
  /\ flag = FALSE
  /\ threads = [t \in Threads |-> "none"]
  /\ lastReturned = "none"
  /\ excepted = {}

\* a SerialConnection fresh from its constructor, nothing called on it yet
InitSerialConnection ==
  /\ serial = "None"
  /\ serialLog = <<>>

\* a Pipelines of recording pipelines, never called
Items == 1..MaxItems
InitRecording ==
  /\ cpc = "idle"
  /\ ci = 1
  /\ calls = <<>>
  /\ lastCall = "none"
  /\ started = [i \in Items |-> FALSE]
  /\ stopped = [i \in Items |-> FALSE]

(***************************************************************************)
(* Orchestrator: Pipelines.start() / Pipelines.stop()                      *)
(***************************************************************************)
\* the for-loop moves to the next item, or the call returns after the last
OrchNextStopFirstOnly(done) ==
  IF oi < NumMembers /\ opc # "join"
    THEN /\ oi' = oi + 1
         /\ UNCHANGED phase
         /\ opc' = opc
    ELSE /\ oi' = 1
         /\ opc' = "idle"
         /\ phase' = done

OrchNext(done) ==
  IF oi < NumMembers
    THEN /\ oi' = oi + 1
         /\ UNCHANGED phase
         /\ opc' = IF opc = "join" THEN "stop" ELSE opc
    ELSE /\ oi' = 1
         /\ opc' = "idle"
         /\ phase' = done

PipelinesStart ==
  /\ opc = "idle"
  /\ phase \in {"new", "stopped"}
  /\ starts < MaxStarts
  /\ opc' = "start"
  /\ oi' = 1
  /\ starts' = starts + 1
  /\ UNCHANGED <<phase, running, thread, worker, iterations, result, reads,
                 published, said, stopDuring, stopReturned, asyncStarts,
                 innerStarts>>
  /\ UNCHANGED otherThanPipe

PipelinesStop ==
  /\ opc = "idle"
  /\ opc' = "stop"
  /\ oi' = 1
  /\ UNCHANGED <<phase, starts, running, thread, worker, iterations, result,
                 reads, published, said, stopDuring, stopReturned, asyncStarts,
                 innerStarts>>
  /\ UNCHANGED otherThanPipe

\* AsyncPipeline.start(): create the thread, start it, return
AsyncPipelineStartInline(m) ==
  /\ opc = "start"
  /\ oi = m
  /\ thread' = [thread EXCEPT ![m] = "Thread"]
  /\ worker' = [worker EXCEPT ![m] = "test"]
  /\ running' = [running EXCEPT ![m] = TRUE]
  /\ innerStarts' = [innerStarts EXCEPT ![m] = @ + 1]
  /\ iterations' = [iterations EXCEPT ![m] = 0]
  /\ asyncStarts' = [asyncStarts EXCEPT ![m] = @ + 1]
  /\ stopReturned' = [stopReturned EXCEPT ![m] = FALSE]
  /\ stopDuring' = [stopDuring EXCEPT ![m] = 0]
  /\ OrchNext("started")
  /\ UNCHANGED <<starts, result, reads, published, said>>
  /\ UNCHANGED otherThanPipe

AsyncPipelineStart(m) ==
  /\ opc = "start"
  /\ oi = m
  /\ thread' = [thread EXCEPT ![m] = "Thread"]
  /\ worker' = [worker EXCEPT ![m] = "ready"]
  /\ asyncStarts' = [asyncStarts EXCEPT ![m] = @ + 1]
  /\ stopReturned' = [stopReturned EXCEPT ![m] = FALSE]
  /\ stopDuring' = [stopDuring EXCEPT ![m] = 0]
  /\ OrchNext("started")
  /\ UNCHANGED <<starts, running, iterations, result, reads, published, said,
                 innerStarts>>
  /\ UNCHANGED otherThanPipe

\* LoopedPipeline.stop(): clear the running flag
LoopedPipelineStop(m) ==
  /\ running' = [running EXCEPT ![m] = FALSE]
  /\ stopDuring' = [stopDuring EXCEPT
                      ![m] = IF InIteration(m) THEN iterations[m] ELSE @]

\* AsyncPipeline.stop(), first statement: self._pipeline.stop()
AsyncPipelineStop(m) ==
  /\ opc = "stop"
  /\ oi = m
  /\ LoopedPipelineStop(m)
  /\ opc' = "join"
  /\ UNCHANGED <<oi, phase, starts, thread, worker, iterations, result, reads,
                 published, said, stopReturned, asyncStarts, innerStarts>>
  /\ UNCHANGED otherThanPipe

\* Thread.join(): returns once the thread has terminated
ThreadJoinedNoWait(m) == TRUE
ThreadJoined(m) == ~Alive(m)

\* AsyncPipeline.stop(), second statement: join the thread if there is one
AsyncPipelineJoinUnguarded(m) ==
  /\ opc = "join"
  /\ oi = m
  /\ IF thread[m] = "None"
       THEN \* None has no join(): AttributeError leaves stop()
            /\ opc' = "raised"
            /\ UNCHANGED <<oi, phase, stopReturned>>
       ELSE /\ ThreadJoined(m)
            /\ stopReturned' = [stopReturned EXCEPT ![m] = TRUE]
            /\ OrchNext(IF phase = "new" THEN "new" ELSE "stopped")
  /\ UNCHANGED <<starts, running, thread, worker, iterations, result, reads,
                 published, said, stopDuring, asyncStarts, innerStarts>>
  /\ UNCHANGED otherThanPipe

AsyncPipelineJoin(m) ==
  /\ opc = "join"
  /\ oi = m
  /\ thread[m] # "None" => ThreadJoined(m)
  /\ stopReturned' = [stopReturned EXCEPT ![m] = TRUE]
  /\ OrchNext(IF phase = "new" THEN "new" ELSE "stopped")
  /\ UNCHANGED <<starts, running, thread, worker, iterations, result, reads,
                 published, said, stopDuring, asyncStarts, innerStarts>>
  /\ UNCHANGED otherThanPipe

(***************************************************************************)
(* Worker thread: LoopedPipeline.start() around SensorPipeline.start()     *)
(***************************************************************************)
\* LoopedPipeline.start(), first statement: self._running = True
LoopedPipelineStart(m) ==
  /\ worker[m] = "ready"
  /\ running' = [running EXCEPT ![m] = TRUE]
  /\ worker' = [worker EXCEPT ![m] = "test"]
  /\ iterations' = [iterations EXCEPT ![m] = 0]
  /\ innerStarts' = [innerStarts EXCEPT ![m] = @ + 1]
  /\ result' = [result EXCEPT ![m] = NoResult]
  /\ reads' = [reads EXCEPT ![m] = 0]
  /\ published' = [published EXCEPT ![m] = <<>>]
  /\ said' = [said EXCEPT ![m] = <<>>]
  /\ UNCHANGED <<opc, oi, phase, starts, thread, stopDuring, stopReturned,
                 asyncStarts>>
  /\ UNCHANGED otherThanPipe

\* the condition of the while loop
LoopedPipelineRunningLate(m) == running[m] \/ iterations[m] = 1
LoopedPipelineRunning(m) == running[m]

\* while self._running: enter the next inner start(), or return
LoopedPipelineTest(m) ==
  /\ worker[m] = "test"
  /\ IF LoopedPipelineRunning(m)
       THEN /\ worker' = [worker EXCEPT ![m] = "read"]
            /\ iterations' = [iterations EXCEPT
                                ![m] = IF @ < MaxIter THEN @ + 1 ELSE @]
            /\ result' = [result EXCEPT ![m] = NoResult]
            /\ reads' = [reads EXCEPT ![m] = 0]
            /\ published' = [published EXCEPT ![m] = <<>>]
            /\ said' = [said EXCEPT ![m] = <<>>]
       ELSE /\ worker' = [worker EXCEPT ![m] = "done"]
            /\ UNCHANGED <<iterations, result, reads, published, said>>
  /\ UNCHANGED <<opc, oi, phase, starts, running, thread, stopDuring,
                 stopReturned, asyncStarts, innerStarts>>
  /\ UNCHANGED otherThanPipe

\* SensorPipeline.start(), first statement: result = self._sensor.read()
SensorReadDetached(m) ==
  /\ worker[m] = "read"
  /\ \E r \in SensorResults : result' = [result EXCEPT ![m] = r]
  /\ reads' = [reads EXCEPT ![m] = @ + 1]
  /\ worker' = [worker EXCEPT ![m] = "test"]
  /\ UNCHANGED <<opc, oi, phase, starts, running, thread, iterations,
                 published, said, stopDuring, stopReturned, asyncStarts,
                 innerStarts>>
  /\ UNCHANGED otherThanPipe

SensorReadExclusive(m) ==
  /\ worker[m] = "read"
  /\ \A n \in Members \ {m} : worker[n] # "read"
  /\ \E r \in SensorResults : result' = [result EXCEPT ![m] = r]
  /\ reads' = [reads EXCEPT ![m] = @ + 1]
  /\ worker' = [worker EXCEPT ![m] = "dispatch"]
  /\ UNCHANGED <<opc, oi, phase, starts, running, thread, iterations,
                 published, said, stopDuring, stopReturned, asyncStarts,
                 innerStarts>>
  /\ UNCHANGED otherThanPipe

SensorRead(m) ==
  /\ worker[m] = "read"
  /\ \E r \in SensorResults : result' = [result EXCEPT ![m] = r]
  /\ reads' = [reads EXCEPT ![m] = @ + 1]
  /\ worker' = [worker EXCEPT ![m] = "dispatch"]
  /\ UNCHANGED <<opc, oi, phase, starts, running, thread, iterations,
                 published, said, stopDuring, stopReturned, asyncStarts,
                 innerStarts>>
  /\ UNCHANGED otherThanPipe

\* SensorPipeline.start(), the branches after the read
SensorPipelineStartFatal(m) ==
  /\ worker[m] = "dispatch"
  /\ IF result[m].successful
       THEN IF ~HasPublishable(result[m].content)
              THEN /\ worker' = [worker EXCEPT ![m] = "raised"]
                   /\ UNCHANGED <<published, said>>
              ELSE /\ worker' = [worker EXCEPT ![m] = "test"]
                   /\ published' = [published EXCEPT ![m] =
                        IF Publishable(result[m].content)
                          THEN Append(@, result[m].content) ELSE @]
                   /\ UNCHANGED said
       ELSE /\ worker' = [worker EXCEPT ![m] = "raised"]
            /\ said' = [said EXCEPT
                          ![m] = Append(@, ConsoleMessage(m, result[m].problem))]
            /\ UNCHANGED published
  /\ UNCHANGED <<opc, oi, phase, starts, running, thread, iterations, result,
                 reads, stopDuring, stopReturned, asyncStarts, innerStarts>>
  /\ UNCHANGED otherThanPipe

SensorPipelineStart(m) ==
  /\ worker[m] = "dispatch"
  /\ IF result[m].successful
       THEN IF ~HasPublishable(result[m].content)
              THEN \* AttributeError leaves start(), the loop and the thread
                   /\ worker' = [worker EXCEPT ![m] = "raised"]
                   /\ UNCHANGED <<published, said>>
              ELSE /\ worker' = [worker EXCEPT ![m] = "test"]
                   /\ published' = [published EXCEPT ![m] =
                        IF Publishable(result[m].content)
                          THEN Append(@, result[m].content) ELSE @]
                   /\ UNCHANGED said
       ELSE /\ worker' = [worker EXCEPT ![m] = "test"]
            /\ said' = [said EXCEPT
                          ![m] = Append(@, ConsoleMessage(m, result[m].problem))]
            /\ UNCHANGED published
  /\ UNCHANGED <<opc, oi, phase, starts, running, thread, iterations, result,
                 reads, stopDuring, stopReturned, asyncStarts, innerStarts>>
  /\ UNCHANGED otherThanPipe

NextPipe ==
  \/ PipelinesStart
  \/ PipelinesStop
  \/ \E m \in Members : AsyncPipelineStart(m)
  \/ \E m \in Members : AsyncPipelineStop(m)
  \/ \E m \in Members : AsyncPipelineJoin(m)
  \/ \E m \in Members : LoopedPipelineStart(m)
  \/ \E m \in Members : LoopedPipelineTest(m)
  \/ \E m \in Members : SensorRead(m)
  \/ \E m \in Members : SensorPipelineStart(m)

\* the collection as constructed; no FramedConnection traffic
Init ==
  /\ InitPipe
  /\ stream = NoBytes
  /\ InitFramedConnection
  /\ InitDelimiter
  /\ size = 0
  /\ InitRecording
  /\ InitSensorPipeline
  /\ frame = NoBytes /\ creates = TRUE /\ InitModbusRtuProtocol
  /\ InitEither
  /\ InitAccumulatedBytes
  /\ InitLoopedPipeline
  /\ InitDelayedConnection
  /\ InitAsyncPipeline
  /\ InitSerialConnection

Spec == Init /\ [][NextPipe]_vars

\* the scheduler runs every thread that can take a step; join and the
\* orchestrator's statements are ordinary steps of the calling thread
FairSpec ==
  /\ Spec
  /\ \A m \in Members :
       /\ WF_vars(LoopedPipelineStart(m))
       /\ WF_vars(LoopedPipelineTest(m))
       /\ WF_vars(SensorRead(m))
       /\ WF_vars(SensorPipelineStart(m))
       /\ WF_vars(AsyncPipelineStart(m))
       /\ WF_vars(AsyncPipelineStop(m))
       /\ WF_vars(AsyncPipelineJoin(m))

(***************************************************************************)
(* Pipelines over recording pipelines (tests/test_pipelines.py)            *)
(***************************************************************************)
InitCollection ==
  /\ InitPipe
  /\ stream = NoBytes
  /\ InitFramedConnection
  /\ InitDelimiter
  /\ size \in 0..MaxItems
  /\ InitRecording
  /\ InitSensorPipeline
  /\ frame = NoBytes /\ creates = TRUE /\ InitModbusRtuProtocol
  /\ InitEither
  /\ InitAccumulatedBytes
  /\ InitLoopedPipeline
  /\ InitDelayedConnection
  /\ InitAsyncPipeline
  /\ InitSerialConnection

\* Pipelines.start() or Pipelines.stop() is entered
RecordingPipelinesCall ==
  /\ cpc = "idle"
  /\ \E op \in {"start", "stop"} :
       /\ cpc' = op
       /\ lastCall' = op
  /\ ci' = 1
  /\ calls' = <<>>
  /\ UNCHANGED <<size, started, stopped>>
  /\ UNCHANGED otherThanColl

\* for item in self._items: item.start() / item.stop()
RecordingItemCallReversed ==
  /\ cpc # "idle"
  /\ ci <= size
  /\ LET item == size + 1 - ci
     IN /\ calls' = Append(calls, <<cpc, item>>)
        /\ IF cpc = "start"
             THEN /\ started' = [started EXCEPT ![item] = TRUE]
                  /\ UNCHANGED stopped
             ELSE /\ stopped' = [stopped EXCEPT ![item] = TRUE]
                  /\ UNCHANGED started
  /\ ci' = ci + 1
  /\ UNCHANGED <<size, cpc, lastCall>>
  /\ UNCHANGED otherThanColl

RecordingItemCall ==
  /\ cpc # "idle"
  /\ ci <= size
  /\ LET item == ci
     IN /\ calls' = Append(calls, <<cpc, item>>)
        /\ IF cpc = "start"
             THEN /\ started' = [started EXCEPT ![item] = TRUE]
                  /\ UNCHANGED stopped
             ELSE /\ stopped' = [stopped EXCEPT ![item] = TRUE]
                  /\ UNCHANGED started
  /\ ci' = ci + 1
  /\ UNCHANGED <<size, cpc, lastCall>>
  /\ UNCHANGED otherThanColl

\* the for-loop is exhausted: the call returns
RecordingPipelinesReturn ==
  /\ cpc # "idle"
  /\ ci > size
  /\ cpc' = "idle"
  /\ UNCHANGED <<size, ci, calls, lastCall, started, stopped>>
  /\ UNCHANGED otherThanColl

NextCollection ==
  \/ RecordingPipelinesCall
  \/ RecordingItemCall
  \/ RecordingPipelinesReturn

CollectionSpec == InitCollection /\ [][NextCollection]_vars

(***************************************************************************)
(* A SensorPipeline over a Sensor, called directly (domain/pipeline.py,    *)
(* domain/sensor.py): one start() is receive, wait, parse, branch          *)
(***************************************************************************)
\* what connection.receive() can return: some bytes or an error
ReceivedFrames == {<<"0x01", "0x03">>, <<"0x02", "0x03">>}
ReceiveResults ==
  {[successful |-> TRUE, content |-> f, problem |-> NoProblem] :
     f \in ReceivedFrames}
  \cup {[successful |-> FALSE, content |-> NoBytes, problem |-> e] :
          e \in Errors}

\* what protocol.parse(bytes) can return: a reading or the rule violated
ParseErrors == {"CRC mismatch"}
ParseResults == {Right(r) : r \in Readings} \cup {Left(e) : e \in ParseErrors}

\* the port of the pipeline's SensorConfig
OwnPort == 1

InitSensor ==
  /\ InitPipe
  /\ stream = NoBytes
  /\ InitFramedConnection
  /\ InitDelimiter
  /\ size = 0
  /\ InitRecording
  /\ InitSensorPipeline
  /\ frame = NoBytes /\ creates = TRUE /\ InitModbusRtuProtocol
  /\ InitEither
  /\ InitAccumulatedBytes
  /\ InitLoopedPipeline
  /\ InitDelayedConnection
  /\ InitAsyncPipeline
  /\ InitSerialConnection

\* SensorPipeline.start() is called and enters Sensor.read()
SensorPipelineEnter ==
  /\ spc \in {"idle", "raised"}
  /\ spc' = "receive"
  /\ bytesResult' = NoReturn
  /\ waits' = 0
  /\ parseCalls' = 0
  /\ parseArg' = NoBytes
  /\ parseResult' = NoResult
  /\ readResult' = NoResult
  /\ sent' = <<>>
  /\ publishResult' = NoPublish
  /\ logged' = <<>>
  /\ stopsBefore' = stops
  /\ UNCHANGED stops
  /\ UNCHANGED otherThanSensor

\* Sensor.read(): bytes_result = self._connection.receive()
ConnectionReceive ==
  /\ spc = "receive"
  /\ bytesResult' \in ReceiveResults
  /\ spc' = "wait"
  /\ UNCHANGED <<waits, parseCalls, parseArg, parseResult, readResult, sent,
                 publishResult, logged, stops, stopsBefore>>
  /\ UNCHANGED otherThanSensor

\* Sensor.read(): self._delay.wait()
DelayWaitOnSuccess ==
  /\ spc = "wait"
  /\ waits' = IF bytesResult.successful THEN waits + 1 ELSE waits
  /\ spc' = "return"
  /\ UNCHANGED <<bytesResult, parseCalls, parseArg, parseResult, readResult,
                 sent, publishResult, logged, stops, stopsBefore>>
  /\ UNCHANGED otherThanSensor

DelayWait ==
  /\ spc = "wait"
  /\ waits' = waits + 1
  /\ spc' = "return"
  /\ UNCHANGED <<bytesResult, parseCalls, parseArg, parseResult, readResult,
                 sent, publishResult, logged, stops, stopsBefore>>
  /\ UNCHANGED otherThanSensor

\* Sensor.read(): return Left(error) of a failed receive, or what
\* protocol.parse returns for the bytes received
SensorReadReturnParsesAnyway ==
  /\ spc = "return"
  /\ parseCalls' = parseCalls + 1
  /\ parseArg' = bytesResult.content
  /\ parseResult' \in ParseResults
  /\ readResult' = parseResult'
  /\ spc' = "branch"
  /\ UNCHANGED <<bytesResult, waits, sent, publishResult, logged, stops,
                 stopsBefore>>
  /\ UNCHANGED otherThanSensor

SensorReadReturn ==
  /\ spc = "return"
  /\ IF ~bytesResult.successful
       THEN /\ readResult' = Left(bytesResult.problem)
            /\ UNCHANGED <<parseCalls, parseArg, parseResult>>
       ELSE /\ parseCalls' = parseCalls + 1
            /\ parseArg' = bytesResult.content
            /\ parseResult' \in ParseResults
            /\ readResult' = parseResult'
  /\ spc' = "branch"
  /\ UNCHANGED <<bytesResult, waits, sent, publishResult, logged, stops,
                 stopsBefore>>
  /\ UNCHANGED otherThanSensor

\* SensorPipeline.start() after the read: publish, drop or log, and return
SensorPipelineBranchInspects ==
  /\ spc = "branch"
  /\ IF readResult.successful
       THEN IF ~HasPublishable(readResult.content)
              THEN /\ spc' = "raised"
                   /\ UNCHANGED <<sent, publishResult, logged>>
              ELSE /\ spc' = "idle"
                   /\ IF Publishable(readResult.content)
                        THEN /\ sent' = Append(sent, readResult.content)
                             /\ publishResult' \in PublishResults
                             /\ logged' =
                                  IF publishResult'.successful THEN logged
                                  ELSE Append(logged,
                                         ConsoleMessage(OwnPort,
                                                        publishResult'.message))
                        ELSE UNCHANGED <<sent, publishResult, logged>>
       ELSE /\ spc' = "idle"
            /\ logged' = Append(logged,
                                ConsoleMessage(OwnPort, readResult.problem))
            /\ UNCHANGED <<sent, publishResult>>
  /\ UNCHANGED <<bytesResult, waits, parseCalls, parseArg, parseResult,
                 readResult, stops, stopsBefore>>
  /\ UNCHANGED otherThanSensor

SensorPipelineBranch ==
  /\ spc = "branch"
  /\ IF readResult.successful
       THEN IF ~HasPublishable(readResult.content)
              THEN \* AttributeError leaves start()
                   /\ spc' = "raised"
                   /\ UNCHANGED <<sent, publishResult, logged>>
              ELSE /\ spc' = "idle"
                   /\ IF Publishable(readResult.content)
                        THEN /\ sent' = Append(sent, readResult.content)
                             /\ publishResult' \in PublishResults
                             /\ UNCHANGED logged
                        ELSE UNCHANGED <<sent, publishResult, logged>>
       ELSE /\ spc' = "idle"
            /\ logged' = Append(logged,
                                ConsoleMessage(OwnPort, readResult.problem))
            /\ UNCHANGED <<sent, publishResult>>
  /\ UNCHANGED <<bytesResult, waits, parseCalls, parseArg, parseResult,
                 readResult, stops, stopsBefore>>
  /\ UNCHANGED otherThanSensor

\* SensorPipeline.stop(): pass
SensorPipelineStopLogs ==
  /\ stops < MaxStops
  /\ stops' = stops + 1
  /\ logged' = Append(logged, ConsoleMessage(OwnPort, "stopped"))
  /\ UNCHANGED <<spc, bytesResult, waits, parseCalls, parseArg, parseResult,
                 readResult, sent, publishResult, stopsBefore>>
  /\ UNCHANGED otherThanSensor

SensorPipelineStop ==
  /\ stops < MaxStops
  /\ stops' = stops + 1
  /\ UNCHANGED <<spc, callRecord, stopsBefore>>
  /\ UNCHANGED otherThanSensor

NextSensor ==
  \/ SensorPipelineEnter
  \/ ConnectionReceive
  \/ DelayWait
  \/ SensorReadReturn
  \/ SensorPipelineBranch
  \/ SensorPipelineStop

SensorSpec == InitSensor /\ [][NextSensor]_vars

(***************************************************************************)
(* Byte strings, the accumulator (serial/port.py) and the text delimiter   *)
(***************************************************************************)
\* a string is a sequence of one-character strings
CR == "\r"
Marker == "!"
Separator == ";"
Digits == {"1", "2"}

\* str.find: 0-based index of the first occurrence of sub in content, or -1
RECURSIVE FindFrom(_, _, _)
FindFrom(content, sub, i) ==
  IF i + Len(sub) > Len(content) THEN -1
  ELSE IF SubSeq(content, i + 1, i + Len(sub)) = sub THEN i
  ELSE FindFrom(content, sub, i + 1)

Find(content, sub) == FindFrom(content, sub, 0)

\* content[position:]
SliceFrom(content, position) == SubSeq(content, position + 1, Len(content))

\* str.find for a one-character needle, searching from index i (0-based)
RECURSIVE FindChar(_, _, _)
FindChar(content, char, i) ==
  IF i >= Len(content) THEN -1
  ELSE IF content[i + 1] = char THEN i
  ELSE FindChar(content, char, i + 1)

\* str.split(sep) for a one-character separator
RECURSIVE Split(_, _)
Split(content, sep) ==
  LET at == FindChar(content, sep, 0)
  IN IF at = -1 THEN <<content>>
     ELSE <<SubSeq(content, 1, at)>> \o Split(SliceFrom(content, at + 1), sep)

\* str.isdigit(): non-empty and digits only
IsDigit(text) == Len(text) > 0 /\ \A i \in 1..Len(text) : text[i] \in Digits

\* AccumulatedBytes.append(received).content()
AccumulatedBytesAppendForget(content, received) == received
AccumulatedBytesAppend(content, received) == content \o received

\* AccumulatedBytes.trim(remainder).content()
AccumulatedBytesTrim(content, remainder) == remainder

\* Extraction(messages, remainder) and Extraction.empty()
Extraction(messages, remainder) == [messages |-> messages, remainder |-> remainder]
ExtractionEmpty(extraction) == Len(extraction.messages) = 0

\* structural validity of a candidate: three semicolon-separated fields, the
\* checksum field all digits
KsumValid(candidate) ==
  LET fields == Split(candidate, Separator)
  IN Len(fields) = 3 /\ IsDigit(fields[3])

\* the candidate of one carriage-return-terminated part: from its first
\* start marker to its end (bytes before the marker are dropped)
KsumCandidateWhole(part) ==
  IF FindChar(part, Marker, 0) = -1 THEN NoBytes ELSE part

KsumCandidate(part) ==
  LET at == FindChar(part, Marker, 0)
  IN IF at = -1 THEN NoBytes ELSE SliceFrom(part, at)

RECURSIVE KsumMessages(_)
KsumMessages(parts) ==
  IF Len(parts) <= 1 THEN <<>>
  ELSE LET candidate == KsumCandidate(Head(parts))
       IN (IF candidate # NoBytes /\ KsumValid(candidate)
             THEN <<candidate>> ELSE <<>>) \o KsumMessages(Tail(parts))

\* KsumDelimiter.extract(data): the valid terminated messages in order, and
\* what follows the last carriage return as the remainder
KsumDelimiterExtractTrimmed(input) ==
  LET parts == Split(input, CR)
      last == parts[Len(parts)]
      at == FindChar(last, Marker, 0)
  IN Extraction(KsumMessages(parts),
                IF at = -1 THEN NoBytes ELSE SliceFrom(last, at))

KsumDelimiterExtractGarbageFirst(input) ==
  LET parts == Split(input, CR)
      at == FindChar(input, Marker, 0)
  IN IF at > 0
       THEN Extraction(<<>>, SliceFrom(input, at))
       ELSE Extraction(KsumMessages(parts), parts[Len(parts)])

KsumDelimiterExtract(input) ==
  LET parts == Split(input, CR)
  IN Extraction(KsumMessages(parts), parts[Len(parts)])

(***************************************************************************)
(* The delimiter used on its own: extract(data), then extract(remainder)   *)
(***************************************************************************)
\* the inputs: up to MaxPieces pieces, each a terminated valid message
\* (with or without garbage before its marker), a terminated candidate with
\* a field missing or with a non-digit checksum, terminated garbage, an
\* unterminated start of a message or unterminated garbage
DelimPieces ==
  { <<"!", "1", ";", "1", ";", "1", CR>>,
    <<"x", "!", "2", ";", "1", ";", "2", CR>>,
    <<"!", "1", ";", "1", CR>>,
    <<"!", "1", ";", "1", ";", "x", CR>>,
    <<"x", CR>>,
    <<"!", "2", ";">>,
    <<"x">> }

RECURSIVE DelimInputsOf(_)
DelimInputsOf(n) ==
  IF n = 0 THEN {NoBytes}
  ELSE LET shorter == DelimInputsOf(n - 1)
       IN shorter \cup {s \o p : s \in shorter, p \in DelimPieces}

DelimInputs == DelimInputsOf(MaxPieces)

InitDelim ==
  /\ InitPipe
  /\ stream = NoBytes
  /\ InitFramedConnection
  /\ data \in DelimInputs
  /\ extracted = NoExtraction
  /\ dpc = "idle"
  /\ size = 0
  /\ InitRecording
  /\ InitSensorPipeline
  /\ frame = NoBytes /\ creates = TRUE /\ InitModbusRtuProtocol
  /\ InitEither
  /\ InitAccumulatedBytes
  /\ InitLoopedPipeline
  /\ InitDelayedConnection
  /\ InitAsyncPipeline
  /\ InitSerialConnection

\* extraction = delimiter.extract(data)
KsumExtract ==
  /\ dpc = "idle"
  /\ extracted' = KsumDelimiterExtract(data)
  /\ dpc' = "extracted"
  /\ UNCHANGED data
  /\ UNCHANGED otherThanDelim

\* the remainder fed back in with no new bytes:
\* extraction = delimiter.extract(extraction.remainder())
KsumExtractRemainder ==
  /\ dpc = "extracted"
  /\ data' = extracted.remainder
  /\ extracted' = KsumDelimiterExtract(extracted.remainder)
  /\ dpc' = "again"
  /\ UNCHANGED otherThanDelim

NextDelim ==
  \/ KsumExtract
  \/ KsumExtractRemainder

DelimSpec == InitDelim /\ [][NextDelim]_vars

(***************************************************************************)
(* FramedConnection.receive() (serial/connection.py)                       *)
(***************************************************************************)
\* lines 290-296: what a loop iteration does with the accumulator content
\* when the extraction is not empty: the message returned and what is kept
FramedTake(content) ==
  LET extraction == KsumDelimiterExtract(content)
      first == extraction.messages[1]
      position == Find(content, first) + Len(first)
  IN [first |-> first,
      kept |-> AccumulatedBytesTrim(content, SliceFrom(content, position))]

\* the messages successive receive() calls return when content is in the
\* accumulator and the connection has nothing more to give
RECURSIVE FramedDrain(_)
FramedDrain(content) ==
  IF ExtractionEmpty(KsumDelimiterExtract(content)) THEN <<>>
  ELSE LET take == FramedTake(content)
       IN <<take.first>> \o FramedDrain(take.kept)

\* the streams: up to MaxPieces pieces, each a terminated valid message, a
\* terminated invalid candidate, garbage or the start of a message
ValidOne == <<"!", "1", ";", "1", ";", "1">>
ValidTwo == <<"!", "2", ";", "1", ";", "1">>
Pieces ==
  { ValidOne \o <<CR>>,
    ValidTwo \o <<CR>>,
    ValidOne \o <<"x", CR>>,
    <<"x">>,
    <<"!", "1", ";">> }

RECURSIVE StreamsOf(_)
StreamsOf(n) ==
  IF n = 0 THEN {NoBytes}
  ELSE LET shorter == StreamsOf(n - 1)
       IN shorter \cup {s \o p : s \in shorter, p \in Pieces}

Streams == StreamsOf(MaxPieces)

InitFrame ==
  /\ InitPipe
  /\ stream \in Streams
  /\ InitFramedConnection
  /\ InitDelimiter
  /\ size = 0
  /\ InitRecording
  /\ InitSensorPipeline
  /\ frame = NoBytes /\ creates = TRUE /\ InitModbusRtuProtocol
  /\ InitEither
  /\ InitAccumulatedBytes
  /\ InitLoopedPipeline
  /\ InitDelayedConnection
  /\ InitAsyncPipeline
  /\ InitSerialConnection

\* the sensor calls FramedConnection.receive()
FramedReceiveCallTakesReady ==
  /\ fpc = "idle"
  /\ IF ExtractionEmpty(KsumDelimiterExtract(accumulated))
       THEN /\ fpc' = "loop"
            /\ looped' = FALSE
            /\ UNCHANGED <<accumulated, returned, delivered>>
       ELSE LET take == FramedTake(accumulated)
            IN /\ accumulated' = take.kept
               /\ returned' = [successful |-> TRUE, content |-> take.first,
                               problem |-> NoProblem]
               /\ delivered' = Append(delivered, take.first)
               /\ UNCHANGED <<fpc, looped>>
  /\ UNCHANGED <<stream, pos>>
  /\ UNCHANGED otherThanFrame

FramedReceiveCall ==
  /\ fpc = "idle"
  /\ fpc' = "loop"
  /\ looped' = FALSE
  /\ UNCHANGED <<stream, pos, accumulated, returned, delivered>>
  /\ UNCHANGED otherThanFrame

\* one iteration of the while loop, the inner receive() failing:
\* the failure is returned, the accumulator is left as it is
FramedReceiveFailureResets ==
  /\ fpc = "loop"
  /\ \E e \in Errors :
       returned' = [successful |-> FALSE, content |-> NoBytes, problem |-> e]
  /\ fpc' = "idle"
  /\ accumulated' = NoBytes
  /\ UNCHANGED looped
  /\ UNCHANGED <<stream, pos, delivered>>
  /\ UNCHANGED otherThanFrame

FramedReceiveFailure ==
  /\ fpc = "loop"
  /\ \E e \in Errors :
       returned' = [successful |-> FALSE, content |-> NoBytes, problem |-> e]
  /\ fpc' = "idle"
  /\ UNCHANGED looped
  /\ UNCHANGED <<stream, pos, accumulated, delivered>>
  /\ UNCHANGED otherThanFrame

\* one iteration of the while loop, the inner receive() returning the next
\* n bytes of the stream (n = 0: an empty read)
FramedReceiveChunk ==
  /\ fpc = "loop"
  /\ \E n \in 0..(Len(stream) - pos) :
       LET chunk == SubSeq(stream, pos + 1, pos + n)
           content == AccumulatedBytesAppend(accumulated, chunk)
           extraction == KsumDelimiterExtract(content)
       IN /\ pos' = pos + n
          /\ IF ~ExtractionEmpty(extraction)
               THEN LET take == FramedTake(content)
                    IN /\ accumulated' = take.kept
                       /\ returned' = [successful |-> TRUE,
                                       content |-> take.first,
                                       problem |-> NoProblem]
                       /\ delivered' = Append(delivered, take.first)
                       /\ fpc' = "idle"
                       /\ UNCHANGED looped
               ELSE /\ accumulated' = content
                    /\ looped' = TRUE
                    /\ UNCHANGED <<returned, delivered, fpc>>
  /\ UNCHANGED stream
  /\ UNCHANGED otherThanFrame

NextFrame ==
  \/ FramedReceiveCall
  \/ FramedReceiveFailure
  \/ FramedReceiveChunk

FrameSpec == InitFrame /\ [][NextFrame]_vars

(***************************************************************************)
(* Modbus RTU (protocols/modbus_rtu.py): the CRC-16 calculator, the        *)
(* checksum and the decoder, applied to frames of bounded length           *)
(***************************************************************************)
\* the longest run of bytes a frame is built from, before its trailer
MaxData == 4

\* a ^ b and a | b of Python integers that are not negative
RECURSIVE BitXor(_, _)
BitXor(a, b) ==
  IF a = 0 THEN b
  ELSE IF b = 0 THEN a
  ELSE ((a + b) % 2) + 2 * BitXor(a \div 2, b \div 2)

RECURSIVE BitOr(_, _)
BitOr(a, b) ==
  IF a = 0 THEN b
  ELSE IF b = 0 THEN a
  ELSE (IF a % 2 = 1 \/ b % 2 = 1 THEN 1 ELSE 0)
       + 2 * BitOr(a \div 2, b \div 2)

\* crc = 0xFFFF and the reversed polynomial 0xA001
CrcInitial == 65535
CrcPolynomial == 40961

\* for bit in range(8): the rounds still to run on crc, each a shift right
\* with the polynomial XORed in when the bit shifted out was set
CrcShift[crc \in Nat, bits \in 0..8] ==
  IF bits = 0 THEN crc
  ELSE CrcShift[IF crc % 2 = 1 THEN BitXor(crc \div 2, CrcPolynomial)
                ELSE crc \div 2,
                bits - 1]

\* for byte in data: from byte number i on, each byte is XORed into crc and
\* the eight rounds follow
CrcFrom[crc \in Nat, input \in Seq(Nat), i \in Nat] ==
  IF i > Len(input) THEN crc
  ELSE CrcFrom[CrcShift[BitXor(crc, input[i]), 8], input, i + 1]

\* ModbusCrc16Calculator.calculate(data)
ModbusCrc16CalculatorCalculateSevenBits(input) ==
  CrcFrom[CrcInitial, [i \in 1..Len(input) |-> 2 * (input[i] \div 2)], 1]

ModbusCrc16CalculatorCalculateFromZero(input) == CrcFrom[0, input, 1]
ModbusCrc16CalculatorCalculate(input) == CrcFrom[CrcInitial, input, 1]

\* ModbusCrc16.valid(bytes): the last two bytes are the CRC of the others,
\* low byte first
ModbusCrc16Valid(bytes) ==
  IF Len(bytes) < 3 THEN FALSE
  ELSE LET covered == SubSeq(bytes, 1, Len(bytes) - 2)
           crc_low == bytes[Len(bytes) - 1]
           crc_high == bytes[Len(bytes)]
           expected == BitOr(crc_high * 256, crc_low)
           calculated == ModbusCrc16CalculatorCalculate(covered)
       IN calculated = expected

\* float(raw_value) / 10.0, as its whole part and its tenths
Numeric(raw_value) == [whole |-> raw_value \div 10, tenths |-> raw_value % 10]
\* reading_factory.create(epoch, measurement_factory.create(numeric))
ModbusReading(raw_value) == [class |-> "Reading", numeric |-> Numeric(raw_value)]

\* the messages of the decoder's failures
TooShort == <<"Modbus RTU message too short">>
InvalidCrc == <<"Invalid Modbus RTU CRC-16">>
Unsupported(function_code) ==
  <<"Unsupported Modbus function code: ", function_code>>
LengthMismatch == <<"Modbus RTU message length mismatch">>
FailedToParse(problem) == <<"Failed to parse Modbus RTU message: ", problem>>

\* an exception leaving a block of statements instead of a return value
Raised(exception) == [raised |-> TRUE, exception |-> exception]
IsEither(outcome) == "successful" \in DOMAIN outcome

\* the statements of parse() inside try: what they return or raise
ModbusTryBlock(bytes, factoryCreates) ==
  LET function_code == bytes[2]
      byte_count == bytes[3]
      high_byte == bytes[4]
      low_byte == bytes[5]
      raw_value == BitOr(high_byte * 256, low_byte)
  IN IF function_code # 3 THEN Left(Unsupported(function_code))
     ELSE IF Len(bytes) < 3 + byte_count + 2 THEN Left(LengthMismatch)
     ELSE IF ~factoryCreates THEN Raised("factory error")
     ELSE Right(ModbusReading(raw_value))

\* ModbusRtuProtocol.parse(bytes)
ModbusRtuProtocolParseUncaught(bytes, factoryCreates) ==
  IF Len(bytes) < 5 THEN Left(TooShort)
  ELSE IF ~ModbusCrc16Valid(bytes) THEN Left(InvalidCrc)
  ELSE ModbusTryBlock(bytes, factoryCreates)

ModbusRtuProtocolParseCodeFirst(bytes, factoryCreates) ==
  IF Len(bytes) < 5 THEN Left(TooShort)
  ELSE IF bytes[2] # 3 THEN Left(Unsupported(bytes[2]))
  ELSE IF ~ModbusCrc16Valid(bytes) THEN Left(InvalidCrc)
  ELSE ModbusTryBlock(bytes, factoryCreates)

ModbusRtuProtocolParse(bytes, factoryCreates) ==
  IF Len(bytes) < 5 THEN Left(TooShort)
  ELSE IF ~ModbusCrc16Valid(bytes) THEN Left(InvalidCrc)
  ELSE LET block == ModbusTryBlock(bytes, factoryCreates)
       IN IF IsEither(block) THEN block
          ELSE Left(FailedToParse(block.exception))

\* the frames parsed: up to MaxData bytes, alone, followed by their CRC, or
\* followed by a CRC whose low byte is off by one; and the frame of the
\* module's docstring
ByteAlphabet == {0, 1, 3}

RECURSIVE BytesOf(_)
BytesOf(n) ==
  IF n = 0 THEN {NoBytes}
  ELSE LET shorter == BytesOf(n - 1)
       IN shorter \cup {Append(s, b) : s \in shorter, b \in ByteAlphabet}

CrcLow(input) == ModbusCrc16CalculatorCalculate(input) % 256
CrcHigh(input) == ModbusCrc16CalculatorCalculate(input) \div 256
WithCrc(input) == input \o <<CrcLow(input), CrcHigh(input)>>
WithWrongCrc(input) ==
  input \o <<(CrcLow(input) + 1) % 256, CrcHigh(input)>>

DocumentedFrame == <<1, 3, 4, 0, 10, 0, 1, 221, 244>>

ModbusFrames ==
  LET runs == BytesOf(MaxData)
  IN runs \cup {WithCrc(r) : r \in runs} \cup {WithWrongCrc(r) : r \in runs}
       \cup {DocumentedFrame}

\* bytes with bit number bit of byte number i (from 1) inverted
FlipBit(bytes, i, bit) ==
  [bytes EXCEPT ![i] = BitXor(bytes[i], 2 ^ bit)]

InitModbus ==
  /\ InitPipe
  /\ stream = NoBytes
  /\ InitFramedConnection
  /\ InitDelimiter
  /\ size = 0
  /\ InitRecording
  /\ InitSensorPipeline
  /\ frame \in ModbusFrames
  /\ creates \in BOOLEAN
  /\ InitModbusRtuProtocol
  /\ InitEither
  /\ InitAccumulatedBytes
  /\ InitLoopedPipeline
  /\ InitDelayedConnection
  /\ InitAsyncPipeline
  /\ InitSerialConnection

\* protocol.parse(frame)
ModbusParse ==
  /\ mpc = "new"
  /\ parsed' = ModbusRtuProtocolParse(frame, creates)
  /\ mpc' = "parsed"
  /\ UNCHANGED <<frame, creates, altered, reparsed>>
  /\ UNCHANGED otherThanModbus

\* one bit of a byte the CRC of a valid frame covers is inverted, and the
\* altered frame is parsed
ModbusParseAltered ==
  /\ mpc = "parsed"
  /\ ModbusCrc16Valid(frame)
  /\ \E i \in 1..(Len(frame) - 2), bit \in 0..7 :
       /\ altered' = FlipBit(frame, i, bit)
       /\ reparsed' = ModbusRtuProtocolParse(altered', creates)
  /\ mpc' = "altered"
  /\ UNCHANGED <<frame, creates, parsed>>
  /\ UNCHANGED otherThanModbus

NextModbus ==
  \/ ModbusParse
  \/ ModbusParseAltered

ModbusSpec == InitModbus /\ [][NextModbus]_vars

(***************************************************************************)
(* Either (result/either.py): the three methods called on one object       *)
(***************************************************************************)
\* how many method calls on the one object are followed
MaxCalls == 3

\* what a method call did: it returned a value or raised an exception
Returned(value) == [raised |-> FALSE, value |-> value]

\* Right.successful() / Left.successful()
EitherSuccessful(e) == Returned(e.successful)

\* Right.value() returns the content, Left.value() raises
EitherValueSilent(e) == Returned(e.content)
EitherValue(e) ==
  IF e.successful THEN Returned(e.content) ELSE Raised("RuntimeError")

\* Right.error() raises, Left.error() returns the problem
EitherError(e) ==
  IF e.successful THEN Raised("RuntimeError") ELSE Returned(e.problem)

\* the objects: a Right around each reading, a Left around each message
Wrapped == Readings
Problems == {"failure", "error occurred"}
Eithers == {Right(v) : v \in Wrapped} \cup {Left(e) : e \in Problems}

InitEitherObject ==
  /\ InitPipe
  /\ stream = NoBytes
  /\ InitFramedConnection
  /\ InitDelimiter
  /\ size = 0
  /\ InitRecording
  /\ InitSensorPipeline
  /\ frame = NoBytes /\ creates = TRUE /\ InitModbusRtuProtocol
  /\ either \in Eithers
  /\ asked = <<>>
  /\ InitAccumulatedBytes
  /\ InitLoopedPipeline
  /\ InitDelayedConnection
  /\ InitAsyncPipeline
  /\ InitSerialConnection

\* result.successful()
CallSuccessful ==
  /\ Len(asked) < MaxCalls
  /\ asked' = Append(asked, [method |-> "successful",
                             outcome |-> EitherSuccessful(either)])
  /\ UNCHANGED either
  /\ UNCHANGED otherThanEither

\* result.value()
CallValue ==
  /\ Len(asked) < MaxCalls
  /\ asked' = Append(asked, [method |-> "value",
                             outcome |-> EitherValue(either)])
  /\ UNCHANGED either
  /\ UNCHANGED otherThanEither

\* result.error()
CallError ==
  /\ Len(asked) < MaxCalls
  /\ asked' = Append(asked, [method |-> "error",
                             outcome |-> EitherError(either)])
  /\ UNCHANGED either
  /\ UNCHANGED otherThanEither

NextEither ==
  \/ CallSuccessful
  \/ CallValue
  \/ CallError

EitherSpec == InitEitherObject /\ [][NextEither]_vars

(***************************************************************************)
(* AccumulatedBytes (serial/port.py) on its own: append and trim return    *)
(* new objects, which the caller may assign to its variable                *)
(***************************************************************************)
\* the longest content followed
MaxContent == 4

\* the chunks appended and the remainders kept (tests: "hello", " world",
\* "world", "data", and the empty read)
Chunks == {NoBytes, <<"h">>, <<"d">>, <<"w", "d">>}

InitAccumulator ==
  /\ InitPipe
  /\ stream = NoBytes
  /\ InitFramedConnection
  /\ InitDelimiter
  /\ size = 0
  /\ InitRecording
  /\ InitSensorPipeline
  /\ frame = NoBytes /\ creates = TRUE /\ InitModbusRtuProtocol
  /\ InitEither
  /\ InitAccumulatedBytes
  /\ InitLoopedPipeline
  /\ InitDelayedConnection
  /\ InitAsyncPipeline
  /\ InitSerialConnection

\* result = buffer.append(ReceivedBytes(chunk))
AccumulatedAppendInPlace ==
  /\ \E chunk \in Chunks :
       /\ Len(buffer) + Len(chunk) <= MaxContent
       /\ accArg' = chunk
       /\ derived' = AccumulatedBytesAppend(buffer, chunk)
  /\ accOp' = "append"
  /\ buffer' = derived'
  /\ UNCHANGED otherThanAcc

AccumulatedAppend ==
  /\ \E chunk \in Chunks :
       /\ Len(buffer) + Len(chunk) <= MaxContent
       /\ accArg' = chunk
       /\ derived' = AccumulatedBytesAppend(buffer, chunk)
  /\ accOp' = "append"
  /\ UNCHANGED buffer
  /\ UNCHANGED otherThanAcc

\* result = buffer.trim(remainder)
AccumulatedTrim ==
  /\ \E remainder \in Chunks :
       /\ accArg' = remainder
       /\ derived' = AccumulatedBytesTrim(buffer, remainder)
  /\ accOp' = "trim"
  /\ UNCHANGED buffer
  /\ UNCHANGED otherThanAcc

\* buffer = result: the caller goes on with the object returned
AccumulatedAssign ==
  /\ accOp \in {"append", "trim"}
  /\ buffer' = derived
  /\ accOp' = "assign"
  /\ UNCHANGED <<derived, accArg>>
  /\ UNCHANGED otherThanAcc

NextAccumulator ==
  \/ AccumulatedAppend
  \/ AccumulatedTrim
  \/ AccumulatedAssign

AccumulatorSpec == InitAccumulator /\ [][NextAccumulator]_vars

(***************************************************************************)
(* A LoopedPipeline over a recording pipeline (domain/loop.py,             *)
(* tests/test_loop.py): one thread calls start(), stop() comes from any    *)
(***************************************************************************)
\* how many times start() is called on the one LoopedPipeline
MaxLoopStarts == 2

InitLoop ==
  /\ InitPipe
  /\ stream = NoBytes
  /\ InitFramedConnection
  /\ InitDelimiter
  /\ size = 0
  /\ InitRecording
  /\ InitSensorPipeline
  /\ frame = NoBytes /\ creates = TRUE /\ InitModbusRtuProtocol
  /\ InitEither
  /\ InitAccumulatedBytes
  /\ InitLoopedPipeline
  /\ InitDelayedConnection
  /\ InitAsyncPipeline
  /\ InitSerialConnection

\* LoopedPipeline.start(): self._running = True
LoopedStartEnterKeepsFlag ==
  /\ loopPc = "idle"
  /\ loopStarts < MaxLoopStarts
  /\ loopStarts' = loopStarts + 1
  /\ loopPc' = "test"
  /\ UNCHANGED <<loopRunning, innerLog, loopStops>>
  /\ UNCHANGED otherThanLoop

LoopedStartEnter ==
  /\ loopPc = "idle"
  /\ loopStarts < MaxLoopStarts
  /\ loopStarts' = loopStarts + 1
  /\ loopRunning' = TRUE
  /\ loopPc' = "test"
  /\ UNCHANGED <<innerLog, loopStops>>
  /\ UNCHANGED otherThanLoop

\* while self._running: start() returns when the flag is found False
LoopedTest ==
  /\ loopPc = "test"
  /\ loopPc' = IF loopRunning THEN "inner" ELSE "idle"
  /\ UNCHANGED <<loopRunning, innerLog, loopStarts, loopStops>>
  /\ UNCHANGED otherThanLoop

\* self._pipeline.start(): one call of the inner pipeline, recorded with
\* the number of the start() it was made in
LoopedInnerStart ==
  /\ loopPc = "inner"
  /\ Len(innerLog) < MaxIter
  /\ innerLog' = Append(innerLog, [call |-> "start", during |-> loopStarts])
  /\ loopPc' = "test"
  /\ UNCHANGED <<loopRunning, loopStarts, loopStops>>
  /\ UNCHANGED otherThanLoop

\* LoopedPipeline.stop(): self._running = False
LoopedStopForwards ==
  /\ loopStops < MaxStops
  /\ loopStops' = loopStops + 1
  /\ loopRunning' = FALSE
  /\ innerLog' = Append(innerLog, [call |-> "stop", during |-> loopStarts])
  /\ UNCHANGED <<loopPc, loopStarts>>
  /\ UNCHANGED otherThanLoop

LoopedStop ==
  /\ loopStops < MaxStops
  /\ loopStops' = loopStops + 1
  /\ loopRunning' = FALSE
  /\ UNCHANGED <<loopPc, innerLog, loopStarts>>
  /\ UNCHANGED otherThanLoop

NextLoop ==
  \/ LoopedStartEnter
  \/ LoopedTest
  \/ LoopedInnerStart
  \/ LoopedStop

LoopSpec == InitLoop /\ [][NextLoop]_vars

(***************************************************************************)
(* A DelayedConnection over a fake connection and a fake delay             *)
(* (serial/connection.py, tests/test_framing.py)                           *)
(***************************************************************************)
InitDelayed ==
  /\ InitPipe
  /\ stream = NoBytes
  /\ InitFramedConnection
  /\ InitDelimiter
  /\ size = 0
  /\ InitRecording
  /\ InitSensorPipeline
  /\ frame = NoBytes /\ creates = TRUE /\ InitModbusRtuProtocol
  /\ InitEither
  /\ InitAccumulatedBytes
  /\ InitLoopedPipeline
  /\ InitDelayedConnection
  /\ InitAsyncPipeline
  /\ InitSerialConnection

\* DelayedConnection.receive(): result = self._connection.receive()
DelayedInnerReceive ==
  /\ delayedPc = "idle"
  /\ Len(innerResults) < MaxCalls
  /\ \E r \in ReceiveResults : innerResults' = Append(innerResults, r)
  /\ delayedLog' = Append(delayedLog, "receive")
  /\ delayedPc' = "wait"
  /\ UNCHANGED delayedReturns
  /\ UNCHANGED otherThanDelayed

\* DelayedConnection.receive(): self._delay.wait()
DelayedWaitOnSuccess ==
  /\ delayedPc = "wait"
  /\ delayedLog' =
       IF innerResults[Len(innerResults)].successful
         THEN Append(delayedLog, "wait")
         ELSE delayedLog
  /\ delayedPc' = "return"
  /\ UNCHANGED <<innerResults, delayedReturns>>
  /\ UNCHANGED otherThanDelayed

DelayedWait ==
  /\ delayedPc = "wait"
  /\ delayedLog' = Append(delayedLog, "wait")
  /\ delayedPc' = "return"
  /\ UNCHANGED <<innerResults, delayedReturns>>
  /\ UNCHANGED otherThanDelayed

\* DelayedConnection.receive(): return result
DelayedReturn ==
  /\ delayedPc = "return"
  /\ delayedReturns' = Append(delayedReturns, innerResults[Len(innerResults)])
  /\ delayedPc' = "idle"
  /\ UNCHANGED <<innerResults, delayedLog>>
  /\ UNCHANGED otherThanDelayed

NextDelayed ==
  \/ DelayedInnerReceive
  \/ DelayedWait
  \/ DelayedReturn

DelayedSpec == InitDelayed /\ [][NextDelayed]_vars

(***************************************************************************)
(* One AsyncPipeline over a LoopedPipeline (domain/async.py,               *)
(* domain/loop.py): a caller makes start() and stop() calls in any order,  *)
(* every start() creates a Thread that runs LoopedPipeline.start()         *)
(***************************************************************************)
InitAsync ==
  /\ InitPipe
  /\ stream = NoBytes
  /\ InitFramedConnection
  /\ InitDelimiter
  /\ size = 0
  /\ InitRecording
  /\ InitSensorPipeline
  /\ frame = NoBytes /\ creates = TRUE /\ InitModbusRtuProtocol
  /\ InitEither
  /\ InitAccumulatedBytes
  /\ InitLoopedPipeline
  /\ InitDelayedConnection
  /\ InitAsyncPipeline
  /\ InitSerialConnection

\* a Thread that has been started and has not terminated
ThreadAlive(t) == threads[t] \in {"ready", "test", "inner"}
\* a Thread that is inside the start() of the inner pipeline
ThreadInInner(t) == threads[t] \in {"test", "inner"}

\* AsyncPipeline.start(): self._thread = Thread(target=self._pipeline.start),
\* self._thread.start(), return; the Thread replaces the one held before
AsyncStart ==
  /\ callerPc = "idle"
  /\ \E t \in Threads :
       /\ threads[t] = "none"
       /\ \A u \in Threads : u < t => threads[u] # "none"
       /\ lastThread' = t
       /\ threads' = [threads EXCEPT ![t] = "ready"]
  /\ lastReturned' = "start"
  /\ UNCHANGED <<callerPc, flag, excepted>>
  /\ UNCHANGED otherThanAsync

\* AsyncPipeline.stop(), first statement: self._pipeline.stop(), which is
\* self._running = False
AsyncStop ==
  /\ callerPc = "idle"
  /\ flag' = FALSE
  /\ callerPc' = "join"
  /\ UNCHANGED <<lastThread, threads, lastReturned, excepted>>
  /\ UNCHANGED otherThanAsync

\* AsyncPipeline.stop(), second statement: if self._thread is not None,
\* self._thread.join(), which returns once that Thread has terminated
AsyncJoin ==
  /\ callerPc = "join"
  /\ lastThread # 0 => ~ThreadAlive(lastThread)
  /\ callerPc' = "idle"
  /\ lastReturned' = "stop"
  /\ UNCHANGED <<lastThread, flag, threads, excepted>>
  /\ UNCHANGED otherThanAsync

\* LoopedPipeline.start() in Thread t, first statement: self._running = True
ThreadEnter(t) ==
  /\ threads[t] = "ready"
  /\ flag' = TRUE
  /\ threads' = [threads EXCEPT ![t] = "test"]
  /\ UNCHANGED <<callerPc, lastThread, lastReturned, excepted>>
  /\ UNCHANGED otherThanAsync

\* while self._running: enter the inner start(), or return and end the Thread
ThreadTest(t) ==
  /\ threads[t] = "test"
  /\ threads' = [threads EXCEPT ![t] = IF flag THEN "inner" ELSE "done"]
  /\ UNCHANGED <<callerPc, lastThread, flag, lastReturned, excepted>>
  /\ UNCHANGED otherThanAsync

\* self._pipeline.start() returns: back to the test of the loop
ThreadInnerReturns(t) ==
  /\ threads[t] = "inner"
  /\ threads' = [threads EXCEPT ![t] = "test"]
  /\ UNCHANGED <<callerPc, lastThread, flag, lastReturned, excepted>>
  /\ UNCHANGED otherThanAsync

\* self._pipeline.start() raises: no handler in LoopedPipeline.start() nor
\* in the Thread's target, so the exception ends the Thread
ThreadInnerRaisesCaught(t) ==
  /\ threads[t] = "inner"
  /\ threads' = [threads EXCEPT ![t] = "test"]
  /\ excepted' = excepted \cup {t}
  /\ UNCHANGED <<callerPc, lastThread, flag, lastReturned>>
  /\ UNCHANGED otherThanAsync

ThreadInnerRaises(t) ==
  /\ threads[t] = "inner"
  /\ threads' = [threads EXCEPT ![t] = "raised"]
  /\ excepted' = excepted \cup {t}
  /\ UNCHANGED <<callerPc, lastThread, flag, lastReturned>>
  /\ UNCHANGED otherThanAsync

NextAsync ==
  \/ AsyncStart
  \/ AsyncStop
  \/ AsyncJoin
  \/ \E t \in Threads : ThreadEnter(t)
  \/ \E t \in Threads : ThreadTest(t)
  \/ \E t \in Threads : ThreadInnerReturns(t)
  \/ \E t \in Threads : ThreadInnerRaises(t)

AsyncSpec == InitAsync /\ [][NextAsync]_vars

(***************************************************************************)
(* SerialConnection (serial/connection.py): open(), receive() and close()  *)
(* called in any order, every call into the serial library free to raise   *)
(***************************************************************************)
InitSerial ==
  /\ InitPipe
  /\ stream = NoBytes
  /\ InitFramedConnection
  /\ InitDelimiter
  /\ size = 0
  /\ InitRecording
  /\ InitSensorPipeline
  /\ frame = NoBytes /\ creates = TRUE /\ InitModbusRtuProtocol
  /\ InitEither
  /\ InitAccumulatedBytes
  /\ InitLoopedPipeline
  /\ InitDelayedConnection
  /\ InitAsyncPipeline
  /\ InitSerialConnection

\* the messages of the Eithers returned, and ReceivedBytes(text)
Opened == <<"Serial connection opened">>
FailedToOpen(problem) == <<"Failed to open serial port: ", problem>>
NotOpened == <<"Serial connection not opened">>
ReceivedText(text) == <<"ReceivedBytes", text>>
FailedToReceive(problem) == <<"Failed to receive from serial port: ", problem>>
AlreadyClosed == <<"Serial connection already closed">>
Closed == <<"Serial connection closed">>
FailedToClose(problem) == <<"Failed to close serial port: ", problem>>

\* what the serial library can raise, and the text a read can decode to
SerialProblems == {"SerialException"}
SerialTexts == {"!1;1;1"}

\* calls made on one SerialConnection
MaxSerialCalls == 4

\* one call on the connection: _serial before and after it, and its Either
SerialCall(method, after, successful, payload) ==
  /\ Len(serialLog) < MaxSerialCalls
  /\ serial' = after
  /\ serialLog' = Append(serialLog,
                         [method |-> method, before |-> serial,
                          after |-> after, successful |-> successful,
                          payload |-> payload])
  /\ UNCHANGED otherThanSerial

\* open(): self._serial = serial.Serial(...) inside try; when the
\* constructor raises, the assignment is not made
SerialOpenKeepsHandle ==
  \/ SerialCall("open", "Serial", TRUE, Opened)
  \/ \E problem \in SerialProblems :
       SerialCall("open", "Serial", FALSE, FailedToOpen(problem))

SerialOpen ==
  \/ SerialCall("open", "Serial", TRUE, Opened)
  \/ \E problem \in SerialProblems :
       SerialCall("open", serial, FALSE, FailedToOpen(problem))

\* receive(): Left at once when self._serial is None; else inWaiting() and
\* read() inside try
SerialReceive ==
  IF serial = "None"
    THEN SerialCall("receive", serial, FALSE, NotOpened)
    ELSE \/ \E text \in SerialTexts \cup {""} :
              SerialCall("receive", serial, TRUE, ReceivedText(text))
         \/ \E problem \in SerialProblems :
              SerialCall("receive", serial, FALSE, FailedToReceive(problem))

\* close(): Right at once when self._serial is None; else close() inside
\* try, and self._serial = None after it when it did not raise
SerialClose ==
  IF serial = "None"
    THEN SerialCall("close", serial, TRUE, AlreadyClosed)
    ELSE \/ SerialCall("close", "None", TRUE, Closed)
         \/ \E problem \in SerialProblems :
              SerialCall("close", serial, FALSE, FailedToClose(problem))

NextSerial ==
  \/ SerialOpen
  \/ SerialReceive
  \/ SerialClose

SerialSpec == InitSerial /\ [][NextSerial]_vars

(***************************************************************************)
(* Properties of the delimiter                                             *)
(***************************************************************************)
\* the positions (1-based) of the end-of-message markers of input
Ends(input) == {i \in 1..Len(input) : input[i] = CR}

\* the position after the end marker before end (1 if there is none)
SegmentStart(input, end) ==
  LET before == {i \in Ends(input) : i < end}
  IN IF before = {} THEN 1
     ELSE 1 + CHOOSE i \in before : \A j \in before : j <= i

\* the position of the first start marker of the segment that end
\* terminates, 0 if it has none
MarkerAt(input, end) ==
  LET markers == {i \in SegmentStart(input, end)..(end - 1) : input[i] = Marker}
  IN IF markers = {} THEN 0
     ELSE CHOOSE i \in markers : \A j \in markers : i <= j

\* the candidate terminated by end: from its start marker up to the marker
CandidateAt(input, end) == SubSeq(input, MarkerAt(input, end), end - 1)

\* exactly three semicolon-separated fields, the last one all digits
WellFormed(candidate) ==
  LET separators == {i \in 1..Len(candidate) : candidate[i] = Separator}
  IN /\ Cardinality(separators) = 2
     /\ \E last \in separators :
          /\ \A i \in separators : i <= last
          /\ last < Len(candidate)
          /\ \A i \in (last + 1)..Len(candidate) : candidate[i] \in Digits

\* the end markers that terminate a structurally valid candidate
EmittedEnds(input) ==
  {end \in Ends(input) :
     MarkerAt(input, end) # 0 /\ WellFormed(CandidateAt(input, end))}

\* C11: the messages of extract(data) are exactly the structurally valid
\* candidates that run from a start marker to a carriage return, in the
\* order of their end markers; garbage before a marker and invalid
\* candidates are not among them and do not stop the scan.
KsumEmitsValidCandidatesInOrder ==
  dpc # "idle" =>
    LET ends == EmittedEnds(data)
    IN /\ Len(extracted.messages) = Cardinality(ends)
       /\ \A end \in ends :
            extracted.messages[Cardinality({e \in ends : e <= end})]
              = CandidateAt(data, end)

\* garbage and two kinds of invalid candidate skipped, two messages emitted
KsumSkippedGarbageAndInvalid ==
  /\ dpc = "extracted"
  /\ data = <<"x", "!", "2", ";", "1", ";", "2", CR>>
               \o <<"!", "1", ";", "1", ";", "x", CR>>
               \o <<"!", "1", ";", "1", ";", "1", CR>>
  /\ extracted.messages = << <<"!", "2", ";", "1", ";", "2">>,
                             <<"!", "1", ";", "1", ";", "1">> >>

\* C12: the remainder of extract(data) is what follows the last end marker
\* of data, byte for byte, and holds no terminated message; data without an
\* end marker (the empty data too) gives no message and itself as remainder.
KsumRemainderIsSuffixAfterLastEnd ==
  dpc # "idle" =>
    LET ends == Ends(data)
        last == IF ends = {} THEN 0
                ELSE CHOOSE i \in ends : \A j \in ends : j <= i
    IN /\ extracted.remainder = SubSeq(data, last + 1, Len(data))
       /\ Ends(extracted.remainder) = {}
       /\ ends = {} =>
            (extracted.messages = <<>> /\ extracted.remainder = data)
       /\ data = NoBytes =>
            (extracted.messages = <<>> /\ extracted.remainder = NoBytes)

\* garbage and the start of a message after the last end marker are kept
KsumRemainderKeepsGarbage ==
  /\ dpc = "extracted"
  /\ data = <<"!", "1", ";", "1", ";", "1", CR, "x", "!", "2", ";">>
  /\ extracted.messages = << <<"!", "1", ";", "1", ";", "1">> >>
  /\ extracted.remainder = <<"x", "!", "2", ";">>

\* C13: extracting from the remainder of an extraction, with no new bytes,
\* gives no more messages than that extraction gave and a remainder that is
\* the same or shorter.
KsumIdempotent ==
  [][(dpc = "extracted" /\ dpc' = "again") =>
       /\ Len(extracted'.messages) <= Len(extracted.messages)
       /\ \/ extracted'.remainder = extracted.remainder
          \/ Len(extracted'.remainder) < Len(extracted.remainder)]_vars

\* a non-empty remainder went through the delimiter again and came back
KsumRemainderFedBack ==
  /\ dpc = "again"
  /\ data = <<"x", "!", "2", ";">>
  /\ extracted = Extraction(<<>>, data)

(***************************************************************************)
(* Properties of the framing                                               *)
(***************************************************************************)
\* the bytes the inner connection has handed out so far
Received == SubSeq(stream, 1, pos)

IsPrefix(s, t) == Len(s) <= Len(t) /\ SubSeq(t, 1, Len(s)) = s

\* where the k-th valid terminated message of data ends (0-based index of
\* the byte after it), parts being the carriage-return-separated parts of
\* data from offset on
RECURSIVE EndOfMessage(_, _, _)
EndOfMessage(parts, offset, k) ==
  LET candidate == KsumCandidate(Head(parts))
      ends == offset + Len(Head(parts))
  IN IF candidate # NoBytes /\ KsumValid(candidate)
       THEN IF k = 1 THEN ends ELSE EndOfMessage(Tail(parts), ends + 1, k - 1)
       ELSE EndOfMessage(Tail(parts), ends + 1, k)

\* C9: the messages delivered so far are the first valid terminated
\* messages of the stream, in order and once each; after a successful
\* receive() the accumulator is what was received after the delivered message.
FramedDeliversEachOnce ==
  /\ IsPrefix(delivered, KsumDelimiterExtract(Received).messages)
  /\ (fpc = "idle" /\ returned.successful) =>
       accumulated =
         SliceFrom(Received,
                   EndOfMessage(Split(Received, CR), 0, Len(delivered)))

\* C10: a Success carries a message the delimiter emitted; while no message
\* is complete every chunk, empty or not, is appended and the loop goes on;
\* the messages returned are those returned had the bytes come in one chunk.
FramedChunkingInvisible ==
  /\ [](/\ returned.successful =>
             /\ delivered # <<>>
             /\ returned.content = delivered[Len(delivered)]
        /\ LET messages == KsumDelimiterExtract(Received).messages
           IN \A i \in 1..Len(delivered) :
                \E j \in 1..Len(messages) : delivered[i] = messages[j]
        /\ delivered \o FramedDrain(accumulated) = FramedDrain(Received))
  /\ [][(fpc = "loop" /\ ~(fpc' = "idle" /\ ~returned'.successful)) =>
          IF ExtractionEmpty(KsumDelimiterExtract(
               accumulated \o SubSeq(stream, pos + 1, pos')))
            THEN /\ fpc' = "loop"
                 /\ accumulated' = accumulated \o SubSeq(stream, pos + 1, pos')
            ELSE fpc' = "idle"]_vars

\* the second receive() returned the second message of the stream, put
\* together from more than one inner read
FramedSplitMessageDelivered ==
  /\ stream = <<"x">> \o ValidTwo \o <<CR>> \o ValidOne \o <<CR>>
  /\ delivered = <<ValidTwo, ValidOne>>
  /\ fpc = "idle" /\ returned.successful
  /\ looped
  /\ accumulated = <<CR>>

(***************************************************************************)
(* Properties of the orchestration layer                                   *)
(***************************************************************************)
\* a SensorPipeline.start() call of member m has ended (returned or raised)
CallEnded(m) == worker[m] \in {"test", "done", "raised"} /\ iterations[m] > 0
\* the last sensor.read() of member m returned a Failure
Failed(m) == result[m] \in {Left(e) : e \in Errors}

\* C1: in every state in which AsyncPipeline.stop() has returned after a
\* start(), the worker thread launched by that start() has terminated.
StopReturnsAfterWorkerTerminated ==
  \A m \in Members : (stopReturned[m] /\ thread[m] # "None") => ~Alive(m)

StopReturnedAfterLoop ==
  \E m \in Members :
    stopReturned[m] /\ worker[m] = "done" /\ iterations[m] >= 1

\* C2: a stop() issued after AsyncPipeline.start() returned eventually
\* returns, whatever the interleaving of the worker with the caller.
StopEventuallyReturns ==
  \A m \in Members :
    (opc = "join" /\ oi = m /\ thread[m] # "None") ~> stopReturned[m]

\* C3: AsyncPipeline.start() returns without the inner start() having
\* returned (it has not even been entered), and every start() call leads to
\* exactly one entry of the inner start(), made by the worker.
AsyncStartNonBlocking ==
  /\ [](\A m \in Members :
          innerStarts[m] + (IF worker[m] = "ready" THEN 1 ELSE 0)
            = asyncStarts[m])
  /\ [][\A m \in Members :
          asyncStarts'[m] # asyncStarts[m] =>
            /\ asyncStarts'[m] = asyncStarts[m] + 1
            /\ worker'[m] = "ready"
            /\ innerStarts'[m] = innerStarts[m]
            /\ running'[m] = running[m]]_vars

StartReturnedWhileInnerRuns ==
  \E m \in Members :
    /\ opc = "idle" /\ phase = "started"
    /\ asyncStarts[m] = 1 /\ innerStarts[m] = 1
    /\ InIteration(m) /\ iterations[m] = 2

\* C4: LoopedPipeline.stop() during iteration n leaves that iteration alone,
\* and when LoopedPipeline.start() returns the number of inner start()
\* calls is exactly n.
StopDuringIterationEndsLoopThere ==
  /\ [](\A m \in Members :
          (worker[m] = "done" /\ stopDuring[m] > 0
             /\ stopDuring[m] < MaxIter) =>
            iterations[m] = stopDuring[m])
  /\ [][\A m \in Members :
          (running[m] /\ ~running'[m] /\ InIteration(m)) =>
            /\ worker'[m] = worker[m]
            /\ iterations'[m] = iterations[m]
            /\ stopDuring'[m] = iterations[m]]_vars

LoopReturnedAfterStopInIteration ==
  \E m \in Members :
    worker[m] = "done" /\ stopDuring[m] = 2 /\ iterations[m] = 2

\* C5: in every state in which Pipelines.stop() has returned, no member's
\* worker is still running, however long each worker ran.
PipelinesStopJoinsAll ==
  (opc = "idle" /\ phase = "stopped") => \A m \in Members : ~Alive(m)

PipelinesStoppedUnevenWorkers ==
  /\ opc = "idle" /\ phase = "stopped"
  /\ \E m, n \in Members :
       /\ worker[m] = "done" /\ worker[n] = "done"
       /\ iterations[m] < iterations[n]

\* the reading is publishable as the data model has it: the generic Reading
\* always, a domain-specific reading as its publishable() says
IsPublishable(reading) == reading.class = "Reading" \/ reading.status

\* C6: every SensorPipeline.start() call makes one sensor.read() and then:
\* Failure - one console message with port and error, no publish;
\* Success, publishable - one publish, no message; Success, not
\* publishable - neither.
SensorPipelineOutcomes ==
  \A m \in Members :
    CallEnded(m) =>
      /\ reads[m] = 1
      /\ Failed(m) =>
           /\ said[m] = <<ConsoleMessage(m, result[m].problem)>>
           /\ published[m] = <<>>
      /\ (result[m].successful /\ IsPublishable(result[m].content)) =>
           /\ published[m] = <<result[m].content>>
           /\ said[m] = <<>>
      /\ (result[m].successful /\ ~IsPublishable(result[m].content)) =>
           /\ published[m] = <<>>
           /\ said[m] = <<>>

\* C7: an iteration whose read returned Failure ends without a publish,
\* leaves the running flag alone and returns to the loop test; a loop that
\* ended after a Failure read ended by returning with the flag cleared.
FailureNeverFatal ==
  /\ [][\A m \in Members :
          (worker[m] = "dispatch" /\ Failed(m)
             /\ worker'[m] # worker[m]) =>
            /\ worker'[m] = "test"
            /\ published'[m] = <<>>
            /\ running'[m] = running[m]]_vars
  /\ [](\A m \in Members :
          (~Alive(m) /\ CallEnded(m) /\ Failed(m)) =>
            (worker[m] = "done" /\ ~running[m]))
  /\ [][\A m \in Members :
          (worker[m] = "test" /\ running[m] /\ Failed(m)
             /\ worker'[m] # worker[m]) => worker'[m] = "read"]_vars

LoopContinuedAfterFailure ==
  \E m \in Members :
    /\ worker[m] = "test" /\ iterations[m] = 2
    /\ Failed(m) /\ running[m]

\* C8: a Success carrying the generic Reading of ReadingFactory.create is
\* published by SensorPipeline.start(), without error.
GenericReadingPublished ==
  \A m \in Members :
    (CallEnded(m) /\ result[m] = Right(ReadingFactoryCreate)) =>
      (published[m] = <<ReadingFactoryCreate>> /\ worker[m] # "raised")

\* C16: a Pipelines.start() that has returned made exactly one start() call
\* on every item, in list order, and nothing else; likewise stop(); while
\* the call is under way the calls made are those on the items before the
\* loop position; on an empty collection no call is made and nothing is
\* recorded.
PipelinesCallsEachOnceInOrder ==
  /\ Len(calls) = (IF cpc = "idle"
                     THEN (IF lastCall = "none" THEN 0 ELSE size)
                     ELSE ci - 1)
  /\ \A k \in 1..Len(calls) : calls[k] = <<lastCall, k>>
  /\ \A i \in Items :
       /\ started[i] => i <= size
       /\ stopped[i] => i <= size
       /\ (cpc = "idle" /\ lastCall = "start") => (started[i] <=> i <= size)
       /\ (cpc = "idle" /\ lastCall = "stop") => (stopped[i] <=> i <= size)

\* stop() returned on a started collection of three, each item stopped once
AllThreeStoppedInOrder ==
  /\ size = 3 /\ cpc = "idle" /\ lastCall = "stop"
  /\ calls = << <<"stop", 1>>, <<"stop", 2>>, <<"stop", 3>> >>
  /\ \A i \in 1..3 : started[i] /\ stopped[i]

\* the iteration of member m that has just ended did its read and what the
\* result called for: the console message of a Failure, the publish of a
\* publishable reading
IterationCompleted(m) ==
  /\ reads[m] = 1
  /\ result[m] # NoResult
  /\ Failed(m) => said[m] = <<ConsoleMessage(m, result[m].problem)>>
  /\ (result[m].successful /\ HasPublishable(result[m].content)
        /\ Publishable(result[m].content)) =>
       published[m] = <<result[m].content>>

StopBeforeStartIsNoop ==
  /\ [](\A m \in Members :
          asyncStarts[m] = 0 =>
            /\ thread[m] = "None" /\ worker[m] = "none"
            /\ innerStarts[m] = 0 /\ iterations[m] = 0 /\ ~running[m])
  /\ []((opc = "join" /\ asyncStarts[oi] = 0) =>
          ENABLED AsyncPipelineJoin(oi))
  /\ [][(opc = "join" /\ asyncStarts[oi] = 0 /\ opc' # opc) =>
          (stopReturned'[oi] /\ opc' \in {"stop", "idle"})]_vars

\* Pipelines.stop() ran to its end on a collection never started
StoppedBeforeAnyStart ==
  /\ opc = "idle" /\ phase = "new" /\ starts = 0
  /\ \A m \in Members : stopReturned[m] /\ asyncStarts[m] = 0

\* C17: while another chain is inside the read of its inner start(), a
\* started worker can take its next step, whichever it is, and the
\* orchestrator can start the next member; a step of one chain's worker
\* leaves the other chains' workers and loops as they are.
ChainsIndependent ==
  /\ [](\A m \in Members :
          (\E n \in Members \ {m} : worker[n] = "read") =>
            /\ worker[m] = "ready" => ENABLED LoopedPipelineStart(m)
            /\ worker[m] = "test" => ENABLED LoopedPipelineTest(m)
            /\ worker[m] = "read" => ENABLED SensorRead(m)
            /\ worker[m] = "dispatch" => ENABLED SensorPipelineStart(m)
            /\ (opc = "start" /\ oi = m) => ENABLED AsyncPipelineStart(m))
  /\ [][\A m \in Members :
          (worker[m] # worker'[m] /\ worker[m] # "none"
             /\ asyncStarts'[m] = asyncStarts[m]) =>
            \A n \in Members \ {m} :
              /\ worker'[n] = worker[n]
              /\ iterations'[n] = iterations[n]
              /\ running'[n] = running[n]]_vars

\* the first chain is still inside the read of its first iteration while
\* the second chain, started after it, is in its third iteration
SecondChainRunsWhileFirstBlocked ==
  /\ worker[1] = "read" /\ iterations[1] = 1
  /\ asyncStarts[2] = 1 /\ InIteration(2) /\ iterations[2] = 3

(***************************************************************************)
(* Properties of the SensorPipeline and the Sensor called directly         *)
(***************************************************************************)
\* C18: the step of start() that publishes does the same whatever
\* publisher.publish returns: the reading is passed on once, nothing is
\* logged, and start() returns normally, so that it can be called again.
PublishResultIgnored ==
  /\ [][(spc = "branch" /\ publishResult' # NoPublish) =>
          /\ spc' = "idle"
          /\ logged' = logged
          /\ sent' = Append(sent, readResult.content)
          /\ UNCHANGED <<bytesResult, waits, parseCalls, parseArg,
                         parseResult, readResult, stops, stopsBefore>>]_vars
  /\ [](publishResult # NoPublish =>
          /\ spc = "idle"
          /\ logged = <<>>
          /\ sent = <<readResult.content>>
          /\ ENABLED SensorPipelineEnter)

\* publish returned a Failure; start() has returned and nothing was logged
PublishFailedSilently ==
  /\ spc = "idle"
  /\ publishResult \in PublishResults /\ ~publishResult.successful
  /\ sent = <<DomainReading(TRUE)>>
  /\ logged = <<>>

\* C19: a stop() changes nothing of the pipeline, wherever its caller is,
\* and can always be made; a start() that has returned has waited once and
\* logged and published what the result of its read called for, stop()
\* calls before or during it or not.
SensorPipelineStopIsNoop ==
  /\ [][stops' = stops + 1 => UNCHANGED <<spc, callRecord>>]_vars
  /\ [](stops < MaxStops => ENABLED SensorPipelineStop)
  /\ []((spc = "idle" /\ readResult # NoResult) =>
          /\ waits = 1
          /\ logged = (IF readResult.successful THEN <<>>
                        ELSE <<ConsoleMessage(OwnPort, readResult.problem)>>)
          /\ sent = (IF readResult.successful
                          /\ Publishable(readResult.content)
                        THEN <<readResult.content>> ELSE <<>>))

\* a start() entered after a stop() read, published and returned
StartAfterStopPublished ==
  /\ stopsBefore = 1 /\ stops = 1
  /\ spc = "idle"
  /\ waits = 1
  /\ sent = <<DomainReading(TRUE)>>
  /\ logged = <<>>

\* C20: once Sensor.read() has returned: after a failed receive() it
\* returned a Failure with the error of the receive and parse was not
\* called; after a successful one parse was called once, on the bytes
\* received, and read() returned what parse returned.
SensorReadPropagates ==
  /\ readResult = NoResult => parseCalls = 0
  /\ readResult # NoResult =>
       IF bytesResult.successful
         THEN /\ parseCalls = 1
              /\ parseArg = bytesResult.content
              /\ readResult = parseResult
         ELSE /\ parseCalls = 0
              /\ parseResult = NoResult
              /\ ~readResult.successful
              /\ readResult.problem = bytesResult.problem

\* read() has returned the Failure of the connection, parse not called
ReceiveFailurePropagated ==
  /\ spc = "branch"
  /\ ~bytesResult.successful /\ bytesResult.problem = "Connection error"
  /\ readResult = Left("Connection error")
  /\ parseCalls = 0


(***************************************************************************)
(* Properties of the Modbus RTU decoder                                    *)
(***************************************************************************)
\* the 16-bit value the last two bytes of a frame carry, low byte first
Trailer(bytes) == bytes[Len(bytes) - 1] + 256 * bytes[Len(bytes)]
\* the CRC-16 of all the bytes of a frame but the last two
CrcOfCovered(bytes) ==
  ModbusCrc16CalculatorCalculate(SubSeq(bytes, 1, Len(bytes) - 2))

\* C21: parse rejects a frame shorter than 5 bytes as too short, else a
\* frame whose CRC-16 over all but the last two bytes differs from the
\* trailing little-endian value as a CRC mismatch, else a frame whose
\* function code is not 3 with a message holding that code; none of these
\* frames gets a Success
ModbusRejectsInOrder ==
  mpc = "parsed" =>
    /\ Len(frame) < 5 =>
         ~parsed.successful /\ parsed.problem = TooShort
    /\ (Len(frame) >= 5 /\ CrcOfCovered(frame) # Trailer(frame)) =>
         ~parsed.successful /\ parsed.problem = InvalidCrc
    /\ (Len(frame) >= 5 /\ CrcOfCovered(frame) = Trailer(frame)
          /\ frame[2] # 3) =>
         ~parsed.successful /\ parsed.problem = Unsupported(frame[2])

\* a frame with a good CRC and function code 1 was rejected for its code
UnsupportedCodeRejected ==
  /\ mpc = "parsed"
  /\ Len(frame) >= 5
  /\ CrcOfCovered(frame) = Trailer(frame)
  /\ frame[2] = 1
  /\ ~parsed.successful
  /\ parsed.problem = Unsupported(1)

\* C22: parse returns Failure("length mismatch") for every CRC-valid frame
\* of function code 3 whose length differs from 3 + b + 2, b being its
\* byte-count field
ModbusLengthMismatchRejected ==
  (/\ mpc = "parsed"
   /\ Len(frame) >= 5
   /\ CrcOfCovered(frame) = Trailer(frame)
   /\ frame[2] = 3
   /\ Len(frame) # 3 + frame[3] + 2) =>
    ~parsed.successful /\ parsed.problem = LengthMismatch

\* C23: inverting any one bit of a byte the CRC of a valid frame covers
\* makes ModbusCrc16.valid false, and parse of the altered frame fails
BitFlipInvalidates ==
  mpc = "altered" =>
    /\ ~ModbusCrc16Valid(altered)
    /\ ~reparsed.successful

\* a frame parse accepted was rejected for its CRC after one bit flipped
AcceptedFrameRejectedAfterFlip ==
  /\ mpc = "altered"
  /\ parsed.successful
  /\ ~reparsed.successful
  /\ reparsed.problem = InvalidCrc

\* C24: the CRC-16 of 01 03 04 00 0A 00 01 is 0xF4DD, the trailer of the
\* documented frame 01 03 04 00 0A 00 01 DD F4, and parse of that frame
\* returns Success with raw value 10, the measurement 1.0
DocumentedFrameAccepted ==
  (mpc = "parsed" /\ frame = DocumentedFrame /\ creates) =>
    /\ CrcOfCovered(frame) = 62685
    /\ parsed.successful
    /\ parsed.content.numeric = [whole |-> 1, tenths |-> 0]

\* C25: parse returns an Either for every byte sequence, the empty one and
\* those of 1 to 4 bytes included: no exception leaves it
ParseAlwaysReturns ==
  /\ mpc # "new" => IsEither(parsed)
  /\ mpc = "altered" => IsEither(reparsed)

\* a frame of four bytes, the last two the CRC of the first two, was parsed
FourByteFrameParsed ==
  /\ mpc = "parsed"
  /\ Len(frame) = 4
  /\ CrcOfCovered(frame) = Trailer(frame)
  /\ IsEither(parsed)
  /\ ~parsed.successful

(***************************************************************************)
(* Properties of Either                                                    *)
(***************************************************************************)
\* what a call recorded in asked did, by the side the object holds
AnswersAsRight(call) ==
  /\ call.method = "successful" =>
       ~call.outcome.raised /\ call.outcome.value = TRUE
  /\ call.method = "value" =>
       ~call.outcome.raised /\ call.outcome.value = either.content
  /\ call.method = "error" =>
       call.outcome.raised /\ call.outcome.exception = "RuntimeError"

AnswersAsLeft(call) ==
  /\ call.method = "successful" =>
       ~call.outcome.raised /\ call.outcome.value = FALSE
  /\ call.method = "error" =>
       ~call.outcome.raised /\ call.outcome.value = either.problem
  /\ call.method = "value" =>
       call.outcome.raised /\ call.outcome.exception = "RuntimeError"

\* C26: an Either is a Right or a Left and stays the one it is: on a Right
\* successful() is always true, value() returns the wrapped value and
\* error() raises RuntimeError; on a Left successful() is always false,
\* error() returns the wrapped error and value() raises RuntimeError
EitherVariantsFixed ==
  /\ [](\A k \in 1..Len(asked) :
          \/ either \in {Right(v) : v \in Wrapped} /\ AnswersAsRight(asked[k])
          \/ either \in {Left(e) : e \in Problems} /\ AnswersAsLeft(asked[k]))
  /\ [][either' = either]_vars

\* value() raised on a Left that had answered error() before and answered
\* it again after
LeftValueRaisedBetweenErrors ==
  /\ ~either.successful
  /\ Len(asked) = 3
  /\ asked[1].method = "error"
  /\ asked[2].method = "value"
  /\ asked[2].outcome.raised
  /\ asked[3].method = "error"
  /\ asked[3].outcome = asked[1].outcome

(***************************************************************************)
(* Properties of the accumulator                                           *)
(***************************************************************************)
\* C27: a.append(c).content() is a.content() followed by the content of c,
\* a.trim(r).content() is r, and neither call changes a.content()
AccumulatorAlgebra ==
  [][/\ accOp' = "append" =>
          /\ derived' = buffer \o accArg'
          /\ buffer' = buffer
     /\ accOp' = "trim" =>
          /\ derived' = accArg'
          /\ buffer' = buffer]_vars

\* a chunk was appended to a receiver that held bytes and holds them still
AppendedToNonEmpty ==
  /\ accOp = "append"
  /\ Len(buffer) > 0
  /\ Len(accArg) > 0
  /\ derived = buffer \o accArg
  /\ derived # buffer

(***************************************************************************)
(* Properties of FramedConnection under failing reads                      *)
(***************************************************************************)
\* C28: when the inner receive() fails, FramedConnection.receive() returns
\* that failure at once, reading no more, and leaves the accumulator as it
\* was, so the bytes buffered before are there for the next receive()
FramedFailureKeepsAccumulator ==
  [][(fpc = "loop" /\ fpc' = "idle" /\ ~returned'.successful) =>
       /\ returned'.problem \in Errors
       /\ returned'.content = NoBytes
       /\ accumulated' = accumulated
       /\ pos' = pos
       /\ delivered' = delivered]_vars

\* a receive() failed with the start of a message in the accumulator, which
\* is still there
FailureKeptStartOfMessage ==
  /\ fpc = "idle"
  /\ ~returned.successful
  /\ returned.problem \in Errors
  /\ looped
  /\ Len(accumulated) > 0
  /\ accumulated[1] = Marker
  /\ accumulated = SubSeq(stream, pos - Len(accumulated) + 1, pos)

(***************************************************************************)
(* Properties of LoopedPipeline on its own                                 *)
(***************************************************************************)
\* C29: LoopedPipeline.stop() called while no start() is running calls
\* neither start() nor stop() of the inner pipeline and returns at once,
\* with no start() running after it either
LoopedStopWhileIdleCallsNothing ==
  [][(loopStops' = loopStops + 1 /\ loopPc = "idle") =>
       /\ innerLog' = innerLog
       /\ loopPc' = "idle"
       /\ loopStarts' = loopStarts]_vars

\* stop() was called before any start(): the inner pipeline was not called
LoopedStoppedBeforeStart ==
  /\ loopStops > 0
  /\ loopStarts = 0
  /\ loopPc = "idle"
  /\ innerLog = <<>>
  /\ ~loopRunning

(***************************************************************************)
(* Properties of DelayedConnection                                         *)
(***************************************************************************)
\* C30: each DelayedConnection.receive() calls the inner receive() once,
\* then delay.wait() once, after a Success as after a Failure, and returns
\* the inner result as it is
DelayedReceivesThenWaitsOnce ==
  delayedPc = "idle" =>
    /\ Len(delayedReturns) = Len(innerResults)
    /\ Len(delayedLog) = 2 * Len(delayedReturns)
    /\ \A k \in 1..Len(delayedReturns) :
         /\ delayedLog[2 * k - 1] = "receive"
         /\ delayedLog[2 * k] = "wait"
         /\ delayedReturns[k].successful = innerResults[k].successful
         /\ delayedReturns[k] = innerResults[k]

\* a receive() whose inner read failed has waited and returned the failure,
\* after one whose inner read succeeded
DelayedWaitedAfterFailure ==
  /\ delayedPc = "idle"
  /\ Len(delayedReturns) = 2
  /\ delayedReturns[1].successful
  /\ ~delayedReturns[2].successful
  /\ delayedReturns[2].problem \in Errors
  /\ delayedLog = <<"receive", "wait", "receive", "wait">>

(***************************************************************************)
(* Properties of Sensor.read() inside the SensorPipeline                   *)
(***************************************************************************)
\* C31: Sensor.read() goes receive, delay.wait(), parse: the wait is made
\* once per read, only after receive() has returned and before any parse,
\* and a read that has returned has waited, also after a failed receive.
SensorReadOrder ==
  /\ [](/\ waits <= 1
        /\ waits = 1 => bytesResult # NoReturn
        /\ parseCalls > 0 => waits = 1
        /\ readResult # NoResult => waits = 1)
  /\ [][waits' > waits =>
          /\ bytesResult # NoReturn /\ bytesResult' = bytesResult
          /\ parseCalls = 0 /\ parseCalls' = 0
          /\ readResult = NoResult /\ readResult' = NoResult]_vars
  /\ [][parseCalls' > parseCalls => waits = 1 /\ waits' = 1]_vars

\* the read of a failed receive has returned: waited once, nothing parsed
WaitedOnceAfterFailedReceive ==
  /\ spc = "idle"
  /\ ~bytesResult.successful /\ bytesResult # NoReturn
  /\ waits = 1 /\ parseCalls = 0
  /\ Len(logged) = 1

(***************************************************************************)
(* Properties of one AsyncPipeline under any sequence of calls             *)
(***************************************************************************)
\* C32: whenever a stop() call of the AsyncPipeline has returned and no
\* call has been made since, no Thread it ever started is inside the
\* inner pipeline's start().
AsyncStopLeavesNoThread ==
  (callerPc = "idle" /\ lastReturned = "stop") =>
    \A t \in Threads : ~ThreadInInner(t)

(***************************************************************************)
(* Properties of the Modbus RTU decoder: the register value and the CRC    *)
(***************************************************************************)
\* C33: when parse returns Success, the bytes at indices 3 and 4 of the
\* frame (the 4th and 5th) are register data announced by the byte count
\* and lie before the two CRC bytes; the raw value is byte3 * 256 + byte4,
\* within 0..65535, and the measurement is that value divided by 10.
ModbusValueFromDataRegion ==
  (mpc = "parsed" /\ parsed.successful) =>
    LET byte_count == frame[3]
        raw_value == frame[4] * 256 + frame[5]
    IN /\ 2 + byte_count >= 4
       /\ 5 <= Len(frame) - 2
       /\ raw_value \in 0..65535
       /\ parsed.content.numeric = Numeric(raw_value)

(***************************************************************************)
(* Properties of Pipelines.stop() over AsyncPipeline members               *)
(***************************************************************************)
\* C34: Pipelines.stop() calls stop() on a member only after the stop() of
\* every earlier member has returned, and while it waits in the join of a
\* member whose worker is alive, every later member has its running flag
\* true and its loop iterating.
PipelinesStopOneByOne ==
  /\ [](\A m \in Members :
          (opc = "join" /\ oi = m /\ Alive(m)) =>
            \A n \in Members :
              n > m => running[n] /\ worker[n] \in {"test", "read", "dispatch"})
  /\ [][\A k \in Members :
          (opc = "stop" /\ oi = k /\ opc' = "join") =>
            /\ ~running'[k]
            /\ \A j \in Members : j < k => stopReturned[j]
            /\ \A n \in Members : n > k => running'[n] = running[n]]_vars

InnerExceptionEndsWorker ==
  /\ [](\A t \in excepted : threads[t] = "raised" /\ ~ThreadAlive(t))
  /\ []((callerPc = "join" /\ lastThread \in excepted) => ENABLED AsyncJoin)
  /\ [][\A t \in excepted : threads'[t] = threads[t]]_vars

\* stop() has returned after the worker was ended by an exception
StopReturnedAfterWorkerRaised ==
  /\ callerPc = "idle" /\ lastReturned = "stop"
  /\ lastThread \in excepted
  /\ threads[lastThread] = "raised"

(***************************************************************************)
(* Properties of one FramedConnection.receive() call                       *)
(***************************************************************************)
\* C37: entering receive() delivers nothing, whatever the accumulator
\* holds; the call returns only from a receive() of the inner connection:
\* its Failure, or the first message of what is accumulated with the chunk
\* just received; one call adds at most one message to those delivered,
\* and the messages after it are still found in the accumulator.
FramedReceivesBeforeReturning ==
  /\ [][fpc = "idle" =>
          /\ fpc' = "loop"
          /\ UNCHANGED <<pos, accumulated, returned, delivered>>]_vars
  /\ [][fpc = "loop" =>
          LET chunk == SubSeq(stream, pos + 1, pos')
              all == KsumDelimiterExtract(accumulated \o chunk).messages
              rest == KsumDelimiterExtract(accumulated').messages
          IN IF fpc' = "loop" THEN delivered' = delivered
             ELSE IF ~returned'.successful
               THEN UNCHANGED <<pos, accumulated, delivered>>
               ELSE /\ all # <<>>
                    /\ returned'.content = all[1]
                    /\ delivered' = Append(delivered, all[1])
                    /\ Len(rest) >= Len(all) - 1
                    /\ SubSeq(rest, Len(rest) - Len(all) + 2, Len(rest))
                         = Tail(all)]_vars

\* a receive() entered with a complete message in the accumulator returned
\* the Failure of the inner connection, the message still accumulated
FailureReturnedWithMessageReady ==
  /\ fpc = "idle"
  /\ ~returned.successful /\ returned.problem \in Errors
  /\ delivered = <<ValidOne>>
  /\ KsumDelimiterExtract(accumulated).messages = <<ValidTwo>>

(***************************************************************************)
(* Properties of the SerialConnection lifecycle                            *)
(***************************************************************************)
\* after the first k calls the port is open as the calls tell: some open()
\* succeeded and no close() has succeeded since
OpenAfter(k) ==
  \E j \in 1..k :
    /\ serialLog[j].method = "open" /\ serialLog[j].successful
    /\ \A i \in (j + 1)..k :
         ~(serialLog[i].method = "close" /\ serialLog[i].successful)

CrcWithinSixteenBits ==
  mpc = "parsed" =>
    \A n \in 0..Len(frame) :
      LET crc == ModbusCrc16CalculatorCalculate(SubSeq(frame, 1, n))
      IN /\ crc \in 0..65535
         /\ n = 0 => crc = 65535
         /\ n < Len(frame) =>
              /\ frame[n + 1] \in 0..255
              /\ \A bits \in 0..8 :
                   CrcShift[BitXor(crc, frame[n + 1]), bits] \in 0..65535

\* the CRC-16 of the seven bytes the documented frame's trailer covers
DocumentedFrameCrcComputed ==
  /\ mpc = "parsed"
  /\ frame = DocumentedFrame
  /\ CrcOfCovered(frame) = 61723

====
